---------------------------- MODULE Spec2Model ----------------------------
(***************************************************************************)
(* datapulse: the rebuild of the KPI rollups (api/routers/dbt_run.py) and  *)
(* the query facade reading them (api/services/kpi_service.py), over a     *)
(* PostgreSQL session per request (api/core/database.py).                  *)
(*                                                                         *)
(* Conventions of the model                                                *)
(*   - a decimal/numeric value is an exact rational <<n, d>>, d > 0, in    *)
(*     lowest terms; SQL NULL of a numeric column is <<>>;                 *)
(*   - a nullable timestamp is <<>> (NULL) or <<day>>;                     *)
(*   - a date is the ordinal of a day of the year 2024 (1 = 2024-01-01);   *)
(*   - a table is a set of rows (every modelled table has a key).          *)
(***************************************************************************)
EXTENDS Integers, Sequences, FiniteSets, TLC

\* ------------------------------------------------------------------ bounds
MaxOrders == 3       \* raw orders of a drawn data set
MaxDays == 32        \* length of a drawn daily series
MaxIngest == 2       \* raw orders landed by the external sync while serving
MaxRebuilds == 2     \* calls of run_dbt_models in one behaviour
MaxProducts == 51    \* products of one platform in a drawn catalogue

\* ----------------------------------------------------- numeric (rationals)
RECURSIVE Gcd(_, _)
Gcd(a, b) == IF b = 0 THEN a ELSE Gcd(b, a % b)

Abs(x) == IF x < 0 THEN -x ELSE x

Rat(n, d) ==
    LET g == Gcd(Abs(n), Abs(d))
        s == IF d < 0 THEN -1 ELSE 1
    IN  <<s * (n \div g), s * (d \div g)>>

RInt(n) == <<n, 1>>
RZero == <<0, 1>>
RAdd(x, y) ==
    LET g == Gcd(x[2], y[2])
    IN  Rat(x[1] * (y[2] \div g) + y[1] * (x[2] \div g), (x[2] \div g) * y[2])
RNeg(x) == <<-x[1], x[2]>>
RSub(x, y) == RAdd(x, RNeg(y))
RMul(x, y) ==
    LET a == Rat(x[1], y[2])
        b == Rat(y[1], x[2])
    IN  Rat(a[1] * b[1], a[2] * b[2])
RDiv(x, y) == RMul(x, Rat(y[2], y[1]))
RLt(x, y) == x[1] * y[2] < y[1] * x[2]
RGt(x, y) == RLt(y, x)
RLe(x, y) == ~RLt(y, x)

\* round(x, 2) of a numeric: to two decimals, half away from zero
Round2(x) ==
    LET num == Abs(x[1]) * 100
        q == (2 * num + x[2]) \div (2 * x[2])
    IN  Rat(IF x[1] < 0 THEN -q ELSE q, 100)

Null == <<>>
IsNull(v) == v = <<>>

\* the sum of the terms q[lo..hi]
RECURSIVE RSumSeq(_, _, _)
RSumSeq(q, lo, hi) ==
    IF lo > hi THEN RZero
    ELSE IF lo = hi THEN q[lo]
    ELSE LET mid == (lo + hi) \div 2
         IN  RAdd(RSumSeq(q, lo, mid), RSumSeq(q, mid + 1, hi))

\* sum(f) over the rows S: each distinct value times the rows that carry it
RSum(f, S) ==
    LET P == {<<x, f[x]>> : x \in S}
        V == {p[2] : p \in P}
        q == [i \in 1..Cardinality(V) |->
                 CHOOSE v \in V : Cardinality({w \in V : RLt(w, v)}) = i - 1]
        terms == [i \in 1..Cardinality(V) |->
                     RMul(RInt(Cardinality({p \in P : p[2] = q[i]})), q[i])]
    IN  RSumSeq(terms, 1, Cardinality(V))

\* sum(f) over the rows S, of integers
ISum(f, S) == RSum([x \in S |-> RInt(f[x])], S)[1]

\* avg(expr): NULL over no rows
RAvg(f, S) == IF S = {} THEN Null ELSE RDiv(RSum(f, S), RInt(Cardinality(S)))

\* -------------------------------------------------------------- calendar
\* first ordinal of each month of 2024, and of the month after December
MonthStart == <<1, 32, 61, 92, 122, 153, 183, 214, 245, 275, 306, 336, 367>>

\* date_trunc('month', d), as the month's number (0 = December 2023)
date_trunc_month(d) ==
    IF d < 1 THEN 0
    ELSE CHOOSE m \in 1..12 : MonthStart[m] <= d /\ d < MonthStart[m + 1]

\* date_trunc('month', d - interval '1 month')
prev_month(d) == date_trunc_month(d) - 1

\* ------------------------------------------------------------ raw tables
\* Rows of raw.shopify_orders / raw.amazon_orders / raw.lazada_orders /
\* raw.shopee_orders and of the four item tables, with the columns the
\* staging views read that the rollups depend on.

\* 2024-01-01 00:00:00 UTC in UNIX seconds, and the seconds of a day
\* (shopee lands create_time / update_time as epoch integers)
EpochOf(day) == 1704067200 + (day - 1) * 86400

ShopifyOrderPool == {
    [id |-> 1001, created_at |-> 1, cancelled_at |-> <<>>, customer_id |-> 1,
     total_price |-> RInt(100), total_discounts |-> RZero, currency |-> "USD",
     financial_status |-> "paid", fulfillment_status |-> "fulfilled",
     line_items_count |-> 1],
    [id |-> 1002, created_at |-> 1, cancelled_at |-> <<2>>, customer_id |-> 2,
     total_price |-> RInt(50), total_discounts |-> RZero, currency |-> "USD",
     financial_status |-> "refunded", fulfillment_status |-> "unfulfilled",
     line_items_count |-> 1],
    [id |-> 1003, created_at |-> 32, cancelled_at |-> <<>>, customer_id |-> 1,
     total_price |-> RInt(150), total_discounts |-> RInt(5), currency |-> "USD",
     financial_status |-> "paid", fulfillment_status |-> "fulfilled",
     line_items_count |-> 2],
    [id |-> 1004, created_at |-> 32, cancelled_at |-> <<>>, customer_id |-> 3,
     total_price |-> RInt(100), total_discounts |-> RZero, currency |-> "USD",
     financial_status |-> "pending", fulfillment_status |-> "fulfilled",
     line_items_count |-> 1] }

AmazonOrderPool == {
    [amazon_order_id |-> "AMZ-1", purchase_date |-> 32,
     buyer_email |-> "a@x", order_total |-> [Amount |-> RInt(20), CurrencyCode |-> "USD"],
     payment_method |-> "Credit Card", order_status |-> "Shipped",
     number_of_items_shipped |-> 1, number_of_items_unshipped |-> 0] }

LazadaOrderPool == {
    [order_id |-> 1001, created_at |-> 1, customer_id |-> 7,
     price |-> RInt(5500), voucher |-> RZero, payment_method |-> "COD",
     statuses |-> "delivered", items_count |-> 1],
    [order_id |-> 5002, created_at |-> 32, customer_id |-> 8,
     price |-> RInt(1000), voucher |-> RInt(100), payment_method |-> "COD",
     statuses |-> "pending", items_count |-> 1] }

ShopeeOrderPool == {
    [order_sn |-> "SHP1", create_time |-> EpochOf(1), update_time |-> EpochOf(3),
     buyer_user_id |-> 9, total_amount |-> RInt(1000), voucher_absorbed |-> RZero,
     currency |-> "PHP", order_status |-> "COMPLETED"],
    [order_sn |-> "SHP2", create_time |-> EpochOf(32), update_time |-> EpochOf(33),
     buyer_user_id |-> 9, total_amount |-> RInt(2000), voucher_absorbed |-> RZero,
     currency |-> "PHP", order_status |-> "CANCELLED"] }

ShopifyItemPool == {
    [id |-> 100101, order_id |-> 1001, product_id |-> 11, title |-> "Mug",
     sku |-> "SKU-11", quantity |-> 2, price |-> RInt(50)],
    [id |-> 100201, order_id |-> 1002, product_id |-> 11, title |-> "Mug",
     sku |-> "SKU-11", quantity |-> 1, price |-> RInt(50)],
    [id |-> 100301, order_id |-> 1003, product_id |-> 12, title |-> "Lamp",
     sku |-> "SKU-12", quantity |-> 1, price |-> RInt(150)],
    [id |-> 100401, order_id |-> 1004, product_id |-> 11, title |-> "Mug",
     sku |-> "SKU-11", quantity |-> 2, price |-> RInt(50)] }

AmazonItemPool == {
    [order_item_id |-> "AMZ-1-0", amazon_order_id |-> "AMZ-1", asin |-> "ASIN11",
     title |-> "Mug", seller_sku |-> "SKU-11", quantity_ordered |-> 2,
     item_price |-> [Amount |-> RInt(20)]] }

LazadaItemPool == {
    [order_item_id |-> 100101, order_id |-> 1001, product_id |-> 11, name |-> "Mug",
     sku |-> "SKU-11", paid_price |-> RInt(5500)],
    [order_item_id |-> 500201, order_id |-> 5002, product_id |-> 12, name |-> "Lamp",
     sku |-> "SKU-12", paid_price |-> RInt(1000)] }

ShopeeItemPool == {
    [order_sn |-> "SHP1", item_id |-> 11, item_name |-> "Mug", model_sku |-> "SKU-11",
     model_quantity_purchased |-> 1, model_discounted_price |-> RInt(1000)],
    [order_sn |-> "SHP2", item_id |-> 12, item_name |-> "Lamp", model_sku |-> "SKU-12",
     model_quantity_purchased |-> 1, model_discounted_price |-> RInt(2000)] }

EmptyRaw ==
    [shopify_orders |-> {}, amazon_orders |-> {}, lazada_orders |-> {},
     shopee_orders |-> {}, shopify_order_line_items |-> {}, amazon_order_items |-> {},
     lazada_order_items |-> {}, shopee_order_items |-> {}]

\* the raw layer holding the chosen orders and their line items
RawOf(so, ao, lo, ho) ==
    [shopify_orders |-> so, amazon_orders |-> ao, lazada_orders |-> lo,
     shopee_orders |-> ho,
     shopify_order_line_items |->
        {i \in ShopifyItemPool : \E o \in so : o.id = i.order_id},
     amazon_order_items |->
        {i \in AmazonItemPool : \E o \in ao : o.amazon_order_id = i.amazon_order_id},
     lazada_order_items |->
        {i \in LazadaItemPool : \E o \in lo : o.order_id = i.order_id},
     shopee_order_items |->
        {i \in ShopeeItemPool : \E o \in ho : o.order_sn = i.order_sn}]

RawSize(r) ==
    Cardinality(r.shopify_orders) + Cardinality(r.amazon_orders)
        + Cardinality(r.lazada_orders) + Cardinality(r.shopee_orders)

\* every raw layer of at most MaxOrders orders of the pools
PoolDataSets ==
    {r \in {RawOf(so, ao, lo, ho) :
                so \in SUBSET ShopifyOrderPool, ao \in SUBSET AmazonOrderPool,
                lo \in SUBSET LazadaOrderPool, ho \in SUBSET ShopeeOrderPool} :
        RawSize(r) <= MaxOrders}

\* a storefront series: one order a day on days 1..n, each of 100.00 USD
\* except the order of day k (if any), of 170.00 USD
SeriesOrder(day, amount) ==
    [id |-> 2000 + day, created_at |-> day, cancelled_at |-> <<>>,
     customer_id |-> 1, total_price |-> RInt(amount), total_discounts |-> RZero,
     currency |-> "USD", financial_status |-> "paid",
     fulfillment_status |-> "fulfilled", line_items_count |-> 1]

SeriesDataSets ==
    {RawOf({SeriesOrder(d, IF d = k THEN 170 ELSE 100) : d \in 1..n}, {}, {}, {}) :
        n \in 1..MaxDays, k \in 0..MaxDays}

\* a storefront series of n days of 100.00 USD whose order of day k is free
\* (total_price 0.00)
FreeOrderDataSets ==
    {RawOf({SeriesOrder(d, IF d = k THEN 0 ELSE 100) : d \in 1..n}, {}, {}, {}) :
        n \in 2..3, k \in 1..2}

\* a storefront order of 2024-02-01 with one line item for each of n
\* products: product i sold i times at 2.00 USD, so that revenues and units
\* are strictly ordered; with tie, product 2 is sold once, as product 1 is
CatalogueOrder(n) ==
    [id |-> 3001, created_at |-> 32, cancelled_at |-> <<>>, customer_id |-> 1,
     total_price |-> RInt(100), total_discounts |-> RZero, currency |-> "USD",
     financial_status |-> "paid", fulfillment_status |-> "fulfilled",
     line_items_count |-> n]

CatalogueItem(i, tie) ==
    [id |-> 300100 + i, order_id |-> 3001, product_id |-> 100 + i,
     title |-> "Item", sku |-> "SKU",
     quantity |-> IF tie /\ i = 2 THEN 1 ELSE i, price |-> RInt(2)]

CatalogueDataSets ==
    {[EmptyRaw EXCEPT !.shopify_orders = {CatalogueOrder(n)},
                      !.shopify_order_line_items =
                          {CatalogueItem(i, tie) : i \in 1..n}] :
        n \in {m \in 1..MaxProducts : m % 10 = 1 \/ m = MaxProducts - 1},
        tie \in BOOLEAN}

\* a marketplace order of 2024-01-01 in the given currency
CurrencyOrder(code, amount) ==
    [order_sn |-> "CUR-" \o code, create_time |-> EpochOf(1),
     update_time |-> EpochOf(2), buyer_user_id |-> 9, total_amount |-> RInt(amount),
     voucher_absorbed |-> RZero, currency |-> code, order_status |-> "COMPLETED"]

\* one order in each currency of the multiplier table, one in USD and one in
\* a currency the table does not list, alone and all together beside the
\* lazada order of 5500.00 PHP
CurrencyDataSets ==
    LET O == {CurrencyOrder("USD", 10), CurrencyOrder("PHP", 1000),
              CurrencyOrder("MYR", 100), CurrencyOrder("SGD", 100),
              CurrencyOrder("IDR", 1000000), CurrencyOrder("EUR", 10)}
    IN  {[EmptyRaw EXCEPT !.shopee_orders = {o}] : o \in O}
          \cup {[RawOf({}, {}, {l \in LazadaOrderPool : l.order_id = 1001}, {})
                    EXCEPT !.shopee_orders = O]}

\* raw.lazada_order_items declares no foreign key to raw.lazada_orders: a
\* line item of order 1001 landed while raw.lazada_orders has no order 1001,
\* beside no order at all and beside the storefront order 1001
OrphanItemDataSets ==
    {[RawOf(so, {}, {}, {}) EXCEPT
         !.lazada_order_items = {i \in LazadaItemPool : i.order_id = 1001}] :
        so \in SUBSET {o \in ShopifyOrderPool : o.id = 1001}}

\* a raw row without the column col (the raw table was landed without it)
without_column(o, col) == [f \in DOMAIN o \ {col} |-> o[f]]

\* one order on each platform, with the orders of one platform landed
\* without a column its staging view selects
DegradedDataSets ==
    LET so == {o \in ShopifyOrderPool : o.id = 1001}
        ao == AmazonOrderPool
        lo == {o \in LazadaOrderPool : o.order_id = 1001}
        ho == {o \in ShopeeOrderPool : o.order_sn = "SHP1"}
        r == RawOf(so, ao, lo, ho)
    IN  {[r EXCEPT !.shopify_orders = {without_column(o, "cancelled_at") : o \in so}],
         [r EXCEPT !.amazon_orders = {without_column(o, "payment_method") : o \in ao}],
         [r EXCEPT !.lazada_orders = {without_column(o, "voucher") : o \in lo}],
         [r EXCEPT !.shopee_orders = {without_column(o, "currency") : o \in ho}]}

\* --------------------------------------------------------- staging views
\* bigint::varchar
varchar(n) == ToString(n)

\* to_timestamp(epoch seconds), at day resolution (UTC)
to_timestamp(e) == ((e - 1704067200) \div 86400) + 1

stg_shopify__orders(r) ==
    {[order_id |-> varchar(o.id), platform |-> "shopify",
      order_created_at |-> o.created_at, order_cancelled_at |-> o.cancelled_at,
      customer_id |-> varchar(o.customer_id),
      total_amount |-> o.total_price, discount_amount |-> o.total_discounts,
      currency_code |-> o.currency, payment_status |-> o.financial_status,
      fulfillment_status |-> o.fulfillment_status,
      item_count |-> o.line_items_count] : o \in r.shopify_orders}

stg_amazon__orders(r) ==
    {[order_id |-> o.amazon_order_id, platform |-> "amazon",
      order_created_at |-> o.purchase_date, order_cancelled_at |-> Null,
      customer_id |-> o.buyer_email,
      total_amount |-> o.order_total.Amount, discount_amount |-> RZero,
      currency_code |-> o.order_total.CurrencyCode,
      payment_status |-> o.payment_method,
      fulfillment_status |-> o.order_status,
      item_count |-> o.number_of_items_shipped + o.number_of_items_unshipped]
        : o \in r.amazon_orders}

\* (mutation) the lazada adapter tagging its rows as storefront rows
stg_lazada__orders_as_shopify(r) ==
    {[order_id |-> varchar(o.order_id), platform |-> "shopify",
      order_created_at |-> o.created_at, order_cancelled_at |-> Null,
      customer_id |-> varchar(o.customer_id),
      total_amount |-> o.price, discount_amount |-> o.voucher,
      currency_code |-> "PHP", payment_status |-> o.payment_method,
      fulfillment_status |-> o.statuses,
      item_count |-> o.items_count] : o \in r.lazada_orders}

stg_lazada__orders(r) ==
    {[order_id |-> varchar(o.order_id), platform |-> "lazada",
      order_created_at |-> o.created_at, order_cancelled_at |-> Null,
      customer_id |-> varchar(o.customer_id),
      total_amount |-> o.price, discount_amount |-> o.voucher,
      currency_code |-> "PHP", payment_status |-> o.payment_method,
      fulfillment_status |-> o.statuses,
      item_count |-> o.items_count] : o \in r.lazada_orders}

stg_shopee__orders(r) ==
    {[order_id |-> o.order_sn, platform |-> "shopee",
      order_created_at |-> to_timestamp(o.create_time),
      order_cancelled_at |->
          IF o.order_status = "CANCELLED" THEN <<to_timestamp(o.update_time)>>
          ELSE Null,
      customer_id |-> varchar(o.buyer_user_id),
      total_amount |-> o.total_amount, discount_amount |-> o.voucher_absorbed,
      currency_code |-> o.currency,
      payment_status |->
          IF o.order_status \in {"READY_TO_SHIP", "PROCESSED", "SHIPPED", "COMPLETED"}
          THEN "paid"
          ELSE IF o.order_status = "UNPAID" THEN "pending" ELSE "unknown",
      fulfillment_status |-> o.order_status,
      item_count |-> 1] : o \in r.shopee_orders}

stg_shopify__order_items(r) ==
    {[line_item_id |-> varchar(i.id), order_id |-> varchar(i.order_id),
      product_id |-> varchar(i.product_id), platform |-> "shopify",
      product_name |-> i.title, sku |-> i.sku, quantity |-> i.quantity,
      unit_price |-> i.price, line_total |-> RMul(RInt(i.quantity), i.price)]
        : i \in r.shopify_order_line_items}

stg_amazon__order_items(r) ==
    {[line_item_id |-> i.order_item_id, order_id |-> i.amazon_order_id,
      product_id |-> i.asin, platform |-> "amazon",
      product_name |-> i.title, sku |-> i.seller_sku,
      quantity |-> i.quantity_ordered,
      unit_price |->
          IF i.quantity_ordered = 0 THEN Null
          ELSE RDiv(i.item_price.Amount, RInt(i.quantity_ordered)),
      line_total |-> i.item_price.Amount] : i \in r.amazon_order_items}

stg_lazada__order_items(r) ==
    {[line_item_id |-> varchar(i.order_item_id), order_id |-> varchar(i.order_id),
      product_id |-> varchar(i.product_id), platform |-> "lazada",
      product_name |-> i.name, sku |-> i.sku, quantity |-> 1,
      unit_price |-> i.paid_price, line_total |-> i.paid_price]
        : i \in r.lazada_order_items}

stg_shopee__order_items(r) ==
    {[line_item_id |-> i.order_sn \o "_" \o varchar(i.item_id),
      order_id |-> i.order_sn, product_id |-> varchar(i.item_id),
      platform |-> "shopee", product_name |-> i.item_name, sku |-> i.model_sku,
      quantity |-> i.model_quantity_purchased,
      unit_price |-> i.model_discounted_price,
      line_total |-> RMul(RInt(i.model_quantity_purchased), i.model_discounted_price)]
        : i \in r.shopee_order_items}

\* ---------------------------------------------------- intermediate views
\* (mutation) a currency the table does not list converted to nothing
total_amount_usd_known_only(o) ==
    CASE o.currency_code = "PHP" -> RMul(o.total_amount, Rat(18, 1000))
      [] o.currency_code = "MYR" -> RMul(o.total_amount, Rat(21, 100))
      [] o.currency_code = "SGD" -> RMul(o.total_amount, Rat(74, 100))
      [] o.currency_code = "IDR" -> RMul(o.total_amount, Rat(63, 1000000))
      [] o.currency_code = "USD" -> o.total_amount
      [] OTHER -> RZero

\* the static currency-to-USD multiplier table
total_amount_usd(o) ==
    CASE o.currency_code = "PHP" -> RMul(o.total_amount, Rat(18, 1000))
      [] o.currency_code = "MYR" -> RMul(o.total_amount, Rat(21, 100))
      [] o.currency_code = "SGD" -> RMul(o.total_amount, Rat(74, 100))
      [] o.currency_code = "IDR" -> RMul(o.total_amount, Rat(63, 1000000))
      [] o.currency_code = "USD" -> o.total_amount
      [] OTHER -> o.total_amount

is_paid(o) == o.payment_status \in {"paid", "authorized", "partially_paid"}
is_fulfilled(o) ==
    o.fulfillment_status \in {"fulfilled", "shipped", "delivered", "COMPLETED", "Shipped"}
\* (mutation) cancellation read off the status column
is_cancelled_by_status(o) == o.fulfillment_status \in {"cancelled", "CANCELLED"}

is_cancelled(o) == ~IsNull(o.order_cancelled_at)

\* public_intermediate.int_unified_orders, evaluated on the raw layer r
int_unified_orders(r) ==
    LET unified == stg_shopify__orders(r) \cup stg_amazon__orders(r)
                       \cup stg_lazada__orders(r) \cup stg_shopee__orders(r)
    IN  {[order_id |-> o.order_id, platform |-> o.platform,
          order_cancelled_at |-> o.order_cancelled_at,
          customer_id |-> o.customer_id, total_amount |-> o.total_amount,
          discount_amount |-> o.discount_amount, currency_code |-> o.currency_code,
          payment_status |-> o.payment_status,
          fulfillment_status |-> o.fulfillment_status, item_count |-> o.item_count,
          total_amount_usd |-> total_amount_usd(o),
          order_date |-> o.order_created_at,
          order_month |-> date_trunc_month(o.order_created_at),
          is_paid |-> is_paid(o), is_fulfilled |-> is_fulfilled(o),
          is_cancelled |-> is_cancelled(o)] : o \in unified}

\* public_intermediate.int_unified_order_items
int_unified_order_items(r) ==
    stg_shopify__order_items(r) \cup stg_amazon__order_items(r)
        \cup stg_lazada__order_items(r) \cup stg_shopee__order_items(r)

\* ----------------------------------------------------------- mart tables
\* count(distinct order_id) over the rows g
count_distinct_order_id(g) == Cardinality({o.order_id : o \in g})

\* round(100.0 * num / nullif(den, 0), 2)
rate_pct(num, den) ==
    IF den = 0 THEN Null ELSE Round2(RDiv(RInt(100 * num), RInt(den)))

\* (mutation) a zero baseline reported as 100% growth
mom_growth_pct_full_on_zero(this, last) ==
    IF RGt(last, RZero)
    THEN Round2(RDiv(RMul(RInt(100), RSub(this, last)), last))
    ELSE IF RGt(this, RZero) THEN RInt(100) ELSE RZero

\* case when last > 0 then round(100.0 * (this - last) / last, 2) else 0 end
mom_growth_pct(this, last) ==
    IF RGt(last, RZero)
    THEN Round2(RDiv(RMul(RInt(100), RSub(this, last)), last))
    ELSE RZero

usd_of(g) == [o \in g |-> o.total_amount_usd]

\* CREATE TABLE public_marts.kpi_platform_overview AS ..., run on the raw
\* layer r at current_date
kpi_platform_overview(r, current_date) ==
    LET orders == int_unified_orders(r)
        Row(p) ==
            LET g == {o \in orders : o.platform = p}
                live == {o \in g : ~o.is_cancelled}
                this_m == {o \in g : o.order_month = date_trunc_month(current_date)}
                last_m == {o \in g : o.order_month = prev_month(current_date)}
                on_today == {o \in g : o.order_date = current_date}
                paid == {o \in g : o.is_paid}
                rev(h) == RSum(usd_of(h), {o \in h : ~o.is_cancelled})
            IN  [platform |-> p,
                 total_orders |-> count_distinct_order_id(g),
                 completed_orders |-> count_distinct_order_id(live),
                 cancelled_orders |-> count_distinct_order_id(g \ live),
                 total_revenue_usd |-> rev(g),
                 orders_this_month |-> count_distinct_order_id(this_m),
                 revenue_this_month_usd |-> rev(this_m),
                 orders_last_month |-> count_distinct_order_id(last_m),
                 revenue_last_month_usd |-> rev(last_m),
                 orders_today |-> count_distinct_order_id(on_today),
                 revenue_today_usd |-> rev(on_today),
                 avg_order_value_usd |-> RAvg(usd_of(live), live),
                 payment_rate |-> rate_pct(Cardinality(paid), Cardinality(g)),
                 fulfillment_rate |->
                     rate_pct(Cardinality({o \in g : o.is_fulfilled}), Cardinality(paid)),
                 cancellation_rate |->
                     rate_pct(Cardinality(g \ live), Cardinality(g)),
                 revenue_mom_growth_pct |-> mom_growth_pct(rev(this_m), rev(last_m)),
                 orders_mom_growth_pct |->
                     mom_growth_pct(RInt(count_distinct_order_id(this_m)),
                                    RInt(count_distinct_order_id(last_m)))]
    IN  {Row(p) : p \in {o.platform : o \in orders}}

\* a computed column of a row set, held as its values (each row's value is
\* computed once, as for a materialized CTE)
materialized(f) == f @@ <<>>

\* the elements of a set of dates, ascending (order by order_date)
order_by_date(S) ==
    materialized([i \in 1..Cardinality(S) |->
        CHOOSE x \in S : Cardinality({y \in S : y < x}) = i - 1])

\* (mutation) a frame one row too long
window_avg_off_by_one(v, i, n) ==
    LET frame == {j \in 1..Len(v) : i - n - 1 <= j /\ j <= i}
    IN  RAvg([j \in frame |-> v[j]], frame)

\* avg(v) over (order by ... rows between n preceding and current row), row i
window_avg(v, i, n) ==
    LET frame == {j \in 1..Len(v) : i - n <= j /\ j <= i}
    IN  RAvg([j \in frame |-> v[j]], frame)

\* (mutation) a missing earlier row read as 0
lag_change_from_zero(v, i, n) == IF i - n >= 1 THEN RSub(v[i], v[i - n]) ELSE v[i]

\* v - lag(v, n) over (order by ...), row i
lag_change(v, i, n) == IF i - n >= 1 THEN RSub(v[i], v[i - n]) ELSE Null

\* (mutation) the daily snapshot without its WHERE not is_cancelled
daily_snapshot_orders_all(r) == int_unified_orders(r)

\* the orders the daily snapshot aggregates
daily_snapshot_orders(r) == {o \in int_unified_orders(r) : ~o.is_cancelled}

\* total_orders of one date's group of the daily snapshot
daily_total_orders(g) == count_distinct_order_id(g)

\* CREATE TABLE public_marts.kpi_daily_snapshot AS ...
kpi_daily_snapshot(r) ==
    LET orders == daily_snapshot_orders(r)
        dates == order_by_date({o.order_date : o \in orders})
        G(d) == {o \in orders : o.order_date = d}
        On(d, p) == {o \in G(d) : o.platform = p}
        revenue == materialized(
            [i \in 1..Len(dates) |-> RSum(usd_of(G(dates[i])), G(dates[i]))])
        norders == materialized(
            [i \in 1..Len(dates) |-> RInt(daily_total_orders(G(dates[i])))])
        Row(i) ==
            LET d == dates[i]
            IN  [order_date |-> d,
                 total_orders |-> daily_total_orders(G(d)),
                 total_revenue_usd |-> revenue[i],
                 avg_order_value_usd |-> RAvg(usd_of(G(d)), G(d)),
                 total_items_sold |-> ISum([o \in G(d) |-> o.item_count], G(d)),
                 shopify_orders |-> count_distinct_order_id(On(d, "shopify")),
                 amazon_orders |-> count_distinct_order_id(On(d, "amazon")),
                 lazada_orders |-> count_distinct_order_id(On(d, "lazada")),
                 shopee_orders |-> count_distinct_order_id(On(d, "shopee")),
                 shopify_revenue_usd |-> RSum(usd_of(G(d)), On(d, "shopify")),
                 amazon_revenue_usd |-> RSum(usd_of(G(d)), On(d, "amazon")),
                 lazada_revenue_usd |-> RSum(usd_of(G(d)), On(d, "lazada")),
                 shopee_revenue_usd |-> RSum(usd_of(G(d)), On(d, "shopee")),
                 unique_customers |-> Cardinality({o.customer_id : o \in G(d)}),
                 fulfilled_orders |-> Cardinality({o \in G(d) : o.is_fulfilled}),
                 fulfillment_rate |->
                     rate_pct(Cardinality({o \in G(d) : o.is_fulfilled}),
                              Cardinality(G(d))),
                 revenue_7d_avg |-> window_avg(revenue, i, 6),
                 orders_7d_avg |-> window_avg(norders, i, 6),
                 revenue_30d_avg |-> window_avg(revenue, i, 29),
                 orders_30d_avg |-> window_avg(norders, i, 29),
                 revenue_dod_change |-> lag_change(revenue, i, 1),
                 orders_dod_change |-> lag_change(norders, i, 1),
                 revenue_wow_change |-> lag_change(revenue, i, 7),
                 orders_wow_change |-> lag_change(norders, i, 7)]
    IN  {Row(i) : i \in 1..Len(dates)}

\* (mutation) a running sum that leaves out the current row
running_sum_before(v, i) == RSum([j \in 1..(i - 1) |-> v[j]], 1..(i - 1))

\* sum(v) over (partition ... order by order_date), row i of the partition
running_sum(v, i) == RSum([j \in 1..i |-> v[j]], 1..i)

\* (mutation) growth measured against the current row's revenue
revenue_growth_pct_of_current(v, i) ==
    IF i - 1 >= 1 /\ RGt(v[i - 1], RZero) /\ RGt(v[i], RZero)
    THEN Round2(RMul(RDiv(RSub(v[i], v[i - 1]), v[i]), RInt(100)))
    ELSE RZero

\* case when lag(v) > 0 then round((v - lag(v)) / lag(v) * 100, 2) else 0 end
revenue_growth_pct(v, i) ==
    IF i - 1 >= 1 /\ RGt(v[i - 1], RZero)
    THEN Round2(RMul(RDiv(RSub(v[i], v[i - 1]), v[i - 1]), RInt(100)))
    ELSE RZero

\* CREATE TABLE public_marts.kpi_revenue_summary AS ...
kpi_revenue_summary(r) ==
    LET orders == {o \in int_unified_orders(r) : o.is_cancelled = FALSE}
        G(d, p) == {o \in orders : o.order_date = d /\ o.platform = p}
        gross_usd(d, p) == RSum(usd_of(G(d, p)), G(d, p))
        \* the window partitions: the dates of a platform, ascending, and
        \* those of one of its months, with the partition's windowed columns
        P == {o.platform : o \in orders}
        PM == {<<o.platform, o.order_month>> : o \in orders}
        part == materialized([p \in P |->
            order_by_date({o.order_date : o \in {x \in orders : x.platform = p}})])
        mpart == materialized([k \in PM |->
            order_by_date({o.order_date :
                o \in {x \in orders : x.platform = k[1] /\ x.order_month = k[2]}})])
        pv == materialized([p \in P |->
            materialized([i \in 1..Len(part[p]) |-> gross_usd(part[p][i], p)])])
        pmv == materialized([k \in PM |->
            materialized([i \in 1..Len(mpart[k]) |-> gross_usd(mpart[k][i], k[1])])])
        pmo == materialized([k \in PM |->
            materialized([i \in 1..Len(mpart[k]) |->
                RInt(count_distinct_order_id(G(mpart[k][i], k[1])))])])
        pos(q, d) == CHOOSE i \in 1..Len(q) : q[i] = d
        Row(d, p) ==
            LET g == G(d, p)
                q == part[p]
                mq == mpart[<<p, date_trunc_month(d)>>]
                v == pv[p]
                mv == pmv[<<p, date_trunc_month(d)>>]
                mo == pmo[<<p, date_trunc_month(d)>>]
                i == pos(q, d)
            IN  [order_date |-> d, platform |-> p,
                 total_orders |-> count_distinct_order_id(g),
                 gross_revenue |-> RSum([o \in g |-> o.total_amount], g),
                 gross_revenue_usd |-> v[i],
                 net_revenue |->
                     RSum([o \in g |-> RSub(o.total_amount, o.discount_amount)], g),
                 paid_orders |-> Cardinality({o \in g : o.is_paid}),
                 unpaid_orders |-> Cardinality({o \in g : ~o.is_paid}),
                 fulfilled_orders |-> Cardinality({o \in g : o.is_fulfilled}),
                 pending_fulfillment |->
                     Cardinality({o \in g : ~o.is_fulfilled /\ o.is_paid}),
                 prev_day_revenue |-> IF i - 1 >= 1 THEN v[i - 1] ELSE Null,
                 revenue_change |-> lag_change(v, i, 1),
                 mtd_revenue_usd |-> running_sum(mv, pos(mq, d)),
                 mtd_orders |-> running_sum(mo, pos(mq, d)),
                 revenue_growth_pct |-> revenue_growth_pct(v, i)]
    IN  {Row(k[1], k[2]) : k \in {<<o.order_date, o.platform>> : o \in orders}}

\* (mutation) the tier rule with exclusive boundaries
performance_tier_exclusive(revenue_rank, revenue_percentile) ==
    IF revenue_rank < 10 THEN "Top 10"
    ELSE IF RLt(Rat(8, 10), revenue_percentile) THEN "Top Performer"
    ELSE IF RLt(Rat(5, 10), revenue_percentile) THEN "Average"
    ELSE "Underperformer"

\* (mutation) the tier rule with 'Top Performer' from percentile 0.75
performance_tier_wide(revenue_rank, revenue_percentile) ==
    IF revenue_rank <= 10 THEN "Top 10"
    ELSE IF RLe(Rat(75, 100), revenue_percentile) THEN "Top Performer"
    ELSE IF RLe(Rat(5, 10), revenue_percentile) THEN "Average"
    ELSE "Underperformer"

\* case when revenue_rank <= 10 ... end
performance_tier(revenue_rank, revenue_percentile) ==
    IF revenue_rank <= 10 THEN "Top 10"
    ELSE IF RLe(Rat(8, 10), revenue_percentile) THEN "Top Performer"
    ELSE IF RLe(Rat(5, 10), revenue_percentile) THEN "Average"
    ELSE "Underperformer"

\* items INNER JOIN non-cancelled orders ON (order_id, platform)
items_with_orders(r) ==
    LET orders == {o \in int_unified_orders(r) : o.is_cancelled = FALSE}
    IN  {j \in [item : int_unified_order_items(r), order : orders] :
            j.item.order_id = j.order.order_id /\ j.item.platform = j.order.platform}

\* GROUP BY platform, product_id, product_name, sku
product_keys(r) ==
    {<<j.item.platform, j.item.product_id, j.item.product_name, j.item.sku>> :
        j \in items_with_orders(r)}

\* the product groups that share their total_revenue or their
\* total_units_sold with another group of their platform
tied_products(r) ==
    LET J == items_with_orders(r)
        K == product_keys(r)
        G(k) == {j \in J : <<j.item.platform, j.item.product_id,
                             j.item.product_name, j.item.sku>> = k}
        revenue == materialized(
            [k \in K |-> RSum([j \in G(k) |-> j.item.line_total], G(k))])
        units == materialized(
            [k \in K |-> ISum([j \in G(k) |-> j.item.quantity], G(k))])
    IN  {k \in K : \E x \in K \ {k} :
            x[1] = k[1] /\ (revenue[x] = revenue[k] \/ units[x] = units[k])}

\* The order in which the engine hands tied rows to row_number() is not
\* fixed by the query: any scan position of the tied product groups may
\* occur (the position of a group that ties with none is never consulted).
ScanOrders(r) ==
    LET T == tied_products(r)
        n == Cardinality(T)
    IN  {f \in [T -> 1..n] : \A a, b \in T : a # b => f[a] # f[b]}

\* (mutation) rank() in place of row_number(): peers share a number
row_number_desc_as_rank(K, val, scan, k) ==
    1 + Cardinality({x \in K : x[1] = k[1] /\ RGt(val[x], val[k])})

\* row_number() over (partition by platform order by val desc)
row_number_desc(K, val, scan, k) ==
    1 + Cardinality({x \in K : x[1] = k[1] /\
            (RGt(val[x], val[k]) \/
                (x # k /\ val[x] = val[k] /\ scan[x] < scan[k]))})

\* percent_rank() over (partition by platform order by val)
percent_rank(K, val, k) ==
    LET n == Cardinality({x \in K : x[1] = k[1]})
        below == Cardinality({x \in K : x[1] = k[1] /\ RLt(val[x], val[k])})
    IN  IF n = 1 THEN RZero ELSE Rat(below, n - 1)

\* CREATE TABLE public_marts.kpi_product_performance AS ..., the tied rows
\* numbered in the order scan
kpi_product_performance(r, current_date, scan) ==
    LET J == items_with_orders(r)
        K == product_keys(r)
        G(k) == {j \in J : <<j.item.platform, j.item.product_id,
                             j.item.product_name, j.item.sku>> = k}
        revenue == materialized(
            [k \in K |-> RSum([j \in G(k) |-> j.item.line_total], G(k))])
        units == materialized(
            [k \in K |-> RInt(ISum([j \in G(k) |-> j.item.quantity], G(k)))])
        Row(k) ==
            LET rr == row_number_desc(K, revenue, scan, k)
                pr == percent_rank(K, revenue, k)
                this_m == {j \in G(k) :
                              j.order.order_month = date_trunc_month(current_date)}
            IN  [platform |-> k[1], product_id |-> k[2], product_name |-> k[3],
                 sku |-> k[4],
                 total_orders |-> Cardinality({j.item.order_id : j \in G(k)}),
                 total_units_sold |-> units[k][1],
                 total_revenue |-> revenue[k],
                 days_with_sales |-> Cardinality({j.order.order_date : j \in G(k)}),
                 units_this_month |-> ISum([j \in this_m |-> j.item.quantity], this_m),
                 revenue_this_month |->
                     RSum([j \in this_m |-> j.item.line_total], this_m),
                 revenue_rank |-> rr,
                 units_rank |-> row_number_desc(K, units, scan, k),
                 revenue_percentile |-> pr,
                 performance_tier |-> performance_tier(rr, pr)]
    IN  {Row(k) : k \in K}

\* ------------------------------------------------------------ the state
VARIABLES
    raw,        \* the raw layer (landed by the external sync)
    today,      \* current_date of the database / date.today()
    views,      \* committed catalogue: the views that exist
    marts,      \* committed rollup tables: name -> [exists, rows]
    pc,         \* run_dbt_models: 0 = not running, else the next statement
    txViews,    \* the catalogue as the rebuild's open transaction sees it
    txMarts,    \* the rollup tables as the rebuild's open transaction sees them
    xlocks,     \* tables the rebuild's transaction holds ACCESS EXCLUSIVE on
    response,   \* what the last run_dbt_models call gave its caller
    rebuilds,   \* calls of run_dbt_models so far
    raisedAt,   \* the statement at which the last rebuild raised or was cancelled
    ending,     \* how the last rebuild ended: returned, raised or cancelled
    preViews,   \* the committed catalogue when the running rebuild was called
    preMarts,   \* the committed rollups when the running rebuild was called
    rd,         \* the query-facade request in progress
    obs,        \* the last rollup read made while the last rebuild ran (midway:
                \* the rebuild had uncommitted rollup changes at that time)
    STORE_CONNECTIONS,  \* the in-memory registry: platform -> connection entry
    store_response      \* what the last /stores call gave its caller

vars == <<raw, today, views, marts, pc, txViews, txMarts, xlocks, response,
          rebuilds, raisedAt, ending, preViews, preMarts, rd, obs,
          STORE_CONNECTIONS, store_response>>

StagingViews ==
    {"stg_shopify__orders", "stg_shopify__order_items", "stg_amazon__orders",
     "stg_amazon__order_items", "stg_lazada__orders", "stg_lazada__order_items",
     "stg_shopee__orders", "stg_shopee__order_items"}
IntermediateViews == {"int_unified_orders", "int_unified_order_items"}
MartTables ==
    {"kpi_platform_overview", "kpi_daily_snapshot", "kpi_revenue_summary",
     "kpi_product_performance"}

NoTable == [exists |-> FALSE, rows |-> {}]
NoObs == [table |-> "none", seen |-> NoTable, midway |-> FALSE]
Table(rows) == [exists |-> TRUE, rows |-> rows]

Stmt(kind, name) == [kind |-> kind, name |-> name]

\* (mutation) the rebuild committing after every statement of the mart phase
Program_commit_each ==
    << Stmt("create_view", "stg_shopify__orders"),
       Stmt("create_view", "stg_shopify__order_items"),
       Stmt("create_view", "stg_amazon__orders"),
       Stmt("create_view", "stg_amazon__order_items"),
       Stmt("create_view", "stg_lazada__orders"),
       Stmt("create_view", "stg_lazada__order_items"),
       Stmt("create_view", "stg_shopee__orders"),
       Stmt("create_view", "stg_shopee__order_items"),
       Stmt("commit", "staging"),
       Stmt("create_view", "int_unified_orders"),
       Stmt("create_view", "int_unified_order_items"),
       Stmt("commit", "intermediate"),
       Stmt("drop_table", "kpi_platform_overview"),
       Stmt("commit", "marts"),
       Stmt("create_table_as", "kpi_platform_overview"),
       Stmt("commit", "marts"),
       Stmt("drop_table", "kpi_daily_snapshot"),
       Stmt("commit", "marts"),
       Stmt("create_table_as", "kpi_daily_snapshot"),
       Stmt("commit", "marts"),
       Stmt("drop_table", "kpi_revenue_summary"),
       Stmt("commit", "marts"),
       Stmt("create_table_as", "kpi_revenue_summary"),
       Stmt("commit", "marts"),
       Stmt("drop_table", "kpi_product_performance"),
       Stmt("commit", "marts"),
       Stmt("create_table_as", "kpi_product_performance"),
       Stmt("commit", "marts") >>

\* the statements of run_dbt_models, in order, db.commit() included
Program ==
    << Stmt("create_view", "stg_shopify__orders"),
       Stmt("create_view", "stg_shopify__order_items"),
       Stmt("create_view", "stg_amazon__orders"),
       Stmt("create_view", "stg_amazon__order_items"),
       Stmt("create_view", "stg_lazada__orders"),
       Stmt("create_view", "stg_lazada__order_items"),
       Stmt("create_view", "stg_shopee__orders"),
       Stmt("create_view", "stg_shopee__order_items"),
       Stmt("commit", "staging"),
       Stmt("create_view", "int_unified_orders"),
       Stmt("create_view", "int_unified_order_items"),
       Stmt("commit", "intermediate"),
       Stmt("drop_table", "kpi_platform_overview"),
       Stmt("create_table_as", "kpi_platform_overview"),
       Stmt("drop_table", "kpi_daily_snapshot"),
       Stmt("create_table_as", "kpi_daily_snapshot"),
       Stmt("drop_table", "kpi_revenue_summary"),
       Stmt("create_table_as", "kpi_revenue_summary"),
       Stmt("drop_table", "kpi_product_performance"),
       Stmt("create_table_as", "kpi_product_performance"),
       Stmt("commit", "marts") >>

Running == pc \in 1..Len(Program)
Returning == pc = Len(Program) + 1
AtStmt(kind) == Running /\ Program[pc].kind = kind

\* the views a statement's query reads
ViewsRead(name) ==
    IF name \in IntermediateViews THEN StagingViews
    ELSE IF name = "kpi_product_performance" THEN IntermediateViews
    ELSE IF name \in MartTables THEN {"int_unified_orders"}
    ELSE {}

\* the rows a CREATE TABLE ... AS statement writes
create_table_as(name, r, current_date, scan) ==
    CASE name = "kpi_platform_overview" -> kpi_platform_overview(r, current_date)
      [] name = "kpi_daily_snapshot" -> kpi_daily_snapshot(r)
      [] name = "kpi_revenue_summary" -> kpi_revenue_summary(r)
      [] name = "kpi_product_performance" ->
             kpi_product_performance(r, current_date, scan)

\* the response of the normal return
success_response == [status_code |-> 200, detail |-> "success"]

\* (mutation) the except branch swallowing the error
except_swallowed == success_response

\* the response of the except branch: HTTPException(status_code=500, ...)
except_response == [status_code |-> 500, detail |-> "Model creation failed"]

\* no response yet, and the request task cancelled (no response is sent)
NoResponse == [status_code |-> 0, detail |-> "none"]
cancelled_response == [status_code |-> 0, detail |-> "cancelled"]

\* (mutation) a rollback that keeps what the transaction wrote
rollback_keeps(committed, tx) == tx

\* db.rollback(): the catalogue and tables after the open transaction is
\* rolled back are the committed ones
rollback(committed, tx) == committed

\* (mutation) a close that commits the open transaction
session_close_commits(committed, tx) == tx

\* get_db's session.close() on a session with an open transaction
session_close(committed, tx) == committed

\* what a statement of another session reads of a table (READ COMMITTED)
visible(committed, tx, t) == committed[t]

\* ------------------------------------------------------------ the rebuild
\* the external sync lands one more order, with its line items
SyncPool ==
    {RawOf({o}, {}, {}, {}) : o \in {x \in ShopifyOrderPool : x.id = 1001}}
        \cup {RawOf({}, {}, {o}, {}) : o \in {x \in LazadaOrderPool : x.order_id = 1001}}

Merge(a, b) == [f \in DOMAIN a |-> a[f] \cup b[f]]

sync ==
    /\ RawSize(raw) < MaxIngest
    /\ \E r \in SyncPool :
          /\ raw' = Merge(raw, r)
          /\ raw' # raw
    /\ UNCHANGED <<STORE_CONNECTIONS, store_response, today, views, marts, pc, txViews, txMarts, xlocks, response,
                   rebuilds, raisedAt, ending, preViews, preMarts, rd, obs>>

\* POST /run-models is received
run_dbt_models_call ==
    /\ pc = 0
    /\ rebuilds < MaxRebuilds
    /\ pc' = 1
    /\ rebuilds' = rebuilds + 1
    /\ response' = NoResponse
    /\ raisedAt' = 0
    /\ ending' = "running"
    /\ preViews' = views
    /\ preMarts' = marts
    /\ obs' = NoObs
    /\ UNCHANGED <<STORE_CONNECTIONS, store_response, raw, today, views, marts, txViews, txMarts, xlocks, rd>>

\* the raw table a staging view selects from
raw_table(name) ==
    CASE name = "stg_shopify__orders" -> "shopify_orders"
      [] name = "stg_shopify__order_items" -> "shopify_order_line_items"
      [] name = "stg_amazon__orders" -> "amazon_orders"
      [] name = "stg_amazon__order_items" -> "amazon_order_items"
      [] name = "stg_lazada__orders" -> "lazada_orders"
      [] name = "stg_lazada__order_items" -> "lazada_order_items"
      [] name = "stg_shopee__orders" -> "shopee_orders"
      [] name = "stg_shopee__order_items" -> "shopee_order_items"

\* the raw columns a staging view's SELECT names (those the rollups depend on)
selected_columns(name) ==
    CASE name = "stg_shopify__orders" ->
             {"id", "created_at", "cancelled_at", "customer_id", "total_price",
              "total_discounts", "currency", "financial_status",
              "fulfillment_status", "line_items_count"}
      [] name = "stg_shopify__order_items" ->
             {"id", "order_id", "product_id", "title", "sku", "quantity", "price"}
      [] name = "stg_amazon__orders" ->
             {"amazon_order_id", "purchase_date", "buyer_email", "order_total",
              "payment_method", "order_status", "number_of_items_shipped",
              "number_of_items_unshipped"}
      [] name = "stg_amazon__order_items" ->
             {"order_item_id", "amazon_order_id", "asin", "title", "seller_sku",
              "quantity_ordered", "item_price"}
      [] name = "stg_lazada__orders" ->
             {"order_id", "created_at", "customer_id", "price", "voucher",
              "payment_method", "statuses", "items_count"}
      [] name = "stg_lazada__order_items" ->
             {"order_item_id", "order_id", "product_id", "name", "sku", "paid_price"}
      [] name = "stg_shopee__orders" ->
             {"order_sn", "create_time", "update_time", "buyer_user_id",
              "total_amount", "voucher_absorbed", "currency", "order_status"}
      [] name = "stg_shopee__order_items" ->
             {"order_sn", "item_id", "item_name", "model_sku",
              "model_quantity_purchased", "model_discounted_price"}

\* the database resolves every column a view definition names: CREATE OR
\* REPLACE VIEW over a raw table without one of them raises
columns_exist(name, r) ==
    name \in StagingViews =>
        \A o \in r[raw_table(name)] : selected_columns(name) \subseteq DOMAIN o

\* await db.execute(CREATE OR REPLACE VIEW ...)
exec_create_view ==
    /\ AtStmt("create_view")
    /\ columns_exist(Program[pc].name, raw)
    /\ ViewsRead(Program[pc].name) \subseteq txViews
    /\ txViews' = txViews \cup {Program[pc].name}
    /\ pc' = pc + 1
    /\ UNCHANGED <<STORE_CONNECTIONS, store_response, raw, today, views, marts, txMarts, xlocks, response, rebuilds,
                   raisedAt, ending, preViews, preMarts, rd, obs>>

\* (mutation) reads that take no lock on the table they read
access_share_locks_none == {}

\* the tables the facade request's open transaction has read: it holds
\* ACCESS SHARE on each until its session closes
access_share_locks == rd.held

\* await db.execute(DROP TABLE IF EXISTS ...): waits for the readers holding
\* the table, then holds it exclusively until the transaction ends
exec_drop_table ==
    /\ AtStmt("drop_table")
    /\ LET t == Program[pc].name
       IN  /\ t \notin access_share_locks
           /\ txMarts' = [txMarts EXCEPT ![t] = NoTable]
           /\ xlocks' = IF txMarts[t].exists THEN xlocks \cup {t} ELSE xlocks
    /\ pc' = pc + 1
    /\ UNCHANGED <<STORE_CONNECTIONS, store_response, raw, today, views, marts, txViews, response, rebuilds,
                   raisedAt, ending, preViews, preMarts, rd, obs>>

\* await db.execute(CREATE TABLE ... AS ...)
exec_create_table_as ==
    /\ AtStmt("create_table_as")
    /\ LET t == Program[pc].name
       IN  /\ ViewsRead(t) \subseteq txViews
           /\ ~txMarts[t].exists
           /\ \E scan \in ScanOrders(raw) :
                 txMarts' = [txMarts EXCEPT
                                ![t] = Table(create_table_as(t, raw, today, scan))]
    /\ pc' = pc + 1
    /\ UNCHANGED <<STORE_CONNECTIONS, store_response, raw, today, views, marts, txViews, xlocks, response, rebuilds,
                   raisedAt, ending, preViews, preMarts, rd, obs>>

\* await db.commit()
exec_commit ==
    /\ AtStmt("commit")
    /\ views' = txViews
    /\ marts' = txMarts
    /\ xlocks' = {}
    /\ pc' = pc + 1
    /\ UNCHANGED <<STORE_CONNECTIONS, store_response, raw, today, txViews, txMarts, response, rebuilds, raisedAt, ending,
                   preViews, preMarts, rd, obs>>

\* return {"status": "success", ...}
run_dbt_models_return ==
    /\ Returning
    /\ response' = success_response
    /\ ending' = "returned"
    /\ pc' = 0
    /\ UNCHANGED <<STORE_CONNECTIONS, store_response, raw, today, views, marts, txViews, txMarts, xlocks, rebuilds,
                   raisedAt, preViews, preMarts, rd, obs>>

\* the awaited statement raises: except Exception -> db.rollback(), HTTP 500
run_dbt_models_except ==
    /\ Running
    /\ raisedAt' = pc
    /\ txViews' = rollback(views, txViews)
    /\ txMarts' = rollback(marts, txMarts)
    /\ views' = rollback(views, txViews)
    /\ marts' = rollback(marts, txMarts)
    /\ xlocks' = {}
    /\ response' = except_response
    /\ ending' = "raised"
    /\ pc' = 0
    /\ UNCHANGED <<STORE_CONNECTIONS, store_response, raw, today, rebuilds, preViews, preMarts, rd, obs>>

\* CREATE OR REPLACE VIEW names a column its raw table does not have: the
\* statement raises (undefined column) and the except branch runs
exec_create_view_undefined_column ==
    /\ AtStmt("create_view")
    /\ ~columns_exist(Program[pc].name, raw)
    /\ run_dbt_models_except

\* the request task is cancelled at the awaited statement: CancelledError is
\* no Exception, so only get_db's finally runs
run_dbt_models_cancel ==
    /\ Running
    /\ raisedAt' = pc
    /\ txViews' = session_close(views, txViews)
    /\ txMarts' = session_close(marts, txMarts)
    /\ views' = session_close(views, txViews)
    /\ marts' = session_close(marts, txMarts)
    /\ xlocks' = {}
    /\ response' = cancelled_response
    /\ ending' = "cancelled"
    /\ pc' = 0
    /\ UNCHANGED <<STORE_CONNECTIONS, store_response, raw, today, rebuilds, preViews, preMarts, rd, obs>>

\* ------------------------------------------------------- the query facade
Min(a, b) == IF a < b THEN a ELSE b
Take(q, n) == SubSeq(q, 1, Min(n, Len(q)))

\* ORDER BY key DESC: every order of the rows that is descending in the key
\* (rows equal in the key come in any order)
order_by_desc(rows, key) ==
    LET n == Cardinality(rows)
    IN  {q \in [1..n -> rows] :
            /\ \A i, j \in 1..n : i # j => q[i] # q[j]
            /\ \A i \in 1..n : i < n => RLe(key[q[i + 1]], key[q[i]])}

\* SELECT * FROM kpi_platform_overview ORDER BY total_revenue_usd DESC
get_platform_overview(rows) ==
    order_by_desc(rows, [x \in rows |-> x.total_revenue_usd])

\* SELECT * FROM kpi_daily_snapshot WHERE order_date BETWEEN :start_date AND
\* :end_date ORDER BY order_date DESC LIMIT :limit
get_daily_snapshots(rows, start_date, end_date, limit, date_today) ==
    LET e == IF IsNull(end_date) THEN date_today ELSE end_date[1]
        b == IF IsNull(start_date) THEN e - limit ELSE start_date[1]
        sel == {x \in rows : b <= x.order_date /\ x.order_date <= e}
        asc == order_by_date({x.order_date : x \in sel})
        n == Len(asc)
        desc == [i \in 1..n |-> CHOOSE x \in sel : x.order_date = asc[n + 1 - i]]
    IN  Take(desc, limit)

\* the collation order of the platform names
platform_rank(p) ==
    CHOOSE i \in 1..4 : <<"amazon", "lazada", "shopee", "shopify">>[i] = p

RECURSIVE order_by_date_desc_platform(_)
order_by_date_desc_platform(S) ==
    IF S = {} THEN <<>>
    ELSE LET m == CHOOSE x \in S : \A y \in S :
                      \/ x.order_date > y.order_date
                      \/ /\ x.order_date = y.order_date
                         /\ platform_rank(x.platform) <= platform_rank(y.platform)
         IN  <<m>> \o order_by_date_desc_platform(S \ {m})

\* SELECT * FROM kpi_revenue_summary WHERE order_date BETWEEN ... [AND
\* platform = :platform] ORDER BY order_date DESC, platform
get_revenue_by_platform(rows, platform, start_date, end_date, date_today) ==
    LET e == IF IsNull(end_date) THEN date_today ELSE end_date[1]
        b == IF IsNull(start_date) THEN e - 30 ELSE start_date[1]
    IN  order_by_date_desc_platform(
            {x \in rows : /\ b <= x.order_date /\ x.order_date <= e
                          /\ (platform # "" => x.platform = platform)})

\* SELECT * FROM kpi_product_performance WHERE 1=1 [AND platform = :platform]
\* [AND performance_tier = :tier] ORDER BY total_revenue DESC LIMIT :limit
get_product_performance(rows, platform, tier, limit) ==
    LET sel == {x \in rows : /\ (platform # "" => x.platform = platform)
                             /\ (tier # "" => x.performance_tier = tier)}
    IN  {Take(q, limit) : q \in order_by_desc(sel, [x \in sel |-> x.total_revenue])}

\* Python's round(Decimal, 2): to two decimals, half to even
RoundHalfEven2(x) ==
    LET num == Abs(x[1]) * 100
        q == num \div x[2]
        rem2 == 2 * (num % x[2])
        up == rem2 > x[2] \/ (rem2 = x[2] /\ q % 2 = 1)
        m == IF up THEN q + 1 ELSE q
    IN  Rat(IF x[1] < 0 THEN -m ELSE m, 100)

\* (mutation) a growth of 100 against an empty last month
summary_growth_full_on_zero(this, last) ==
    IF RGt(last, RZero)
    THEN RoundHalfEven2(RMul(RDiv(RSub(this, last), last), RInt(100)))
    ELSE RInt(100)

\* the growth of get_dashboard_summary
summary_growth(this, last) ==
    IF RGt(last, RZero)
    THEN RoundHalfEven2(RMul(RDiv(RSub(this, last), last), RInt(100)))
    ELSE RZero

\* the dictionary get_dashboard_summary returns
get_dashboard_summary(platforms, recent_days) ==
    LET P == 1..Len(platforms)
        total_revenue == RSum([i \in P |-> platforms[i].total_revenue_usd], P)
        total_orders == ISum([i \in P |-> platforms[i].total_orders], P)
        revenue_this_month ==
            RSum([i \in P |-> platforms[i].revenue_this_month_usd], P)
        revenue_last_month ==
            RSum([i \in P |-> platforms[i].revenue_last_month_usd], P)
        orders_this_month == ISum([i \in P |-> platforms[i].orders_this_month], P)
        orders_last_month == ISum([i \in P |-> platforms[i].orders_last_month], P)
    IN  [total_revenue_usd |-> RoundHalfEven2(total_revenue),
         total_orders |-> total_orders,
         avg_order_value_usd |->
             IF total_orders > 0
             THEN RoundHalfEven2(RDiv(total_revenue, RInt(total_orders)))
             ELSE RZero,
         revenue_growth_pct |-> summary_growth(revenue_this_month, revenue_last_month),
         orders_growth_pct |->
             summary_growth(RInt(orders_this_month), RInt(orders_last_month)),
         total_customers |-> 0,
         platforms |-> platforms,
         recent_days |-> recent_days]

\* the rollup reads of each facade operation, in order
ReadsOf(op) ==
    CASE op = "get_platform_overview" -> <<"kpi_platform_overview">>
      [] op = "get_daily_snapshots" -> <<"kpi_daily_snapshot">>
      [] op = "get_revenue_by_platform" -> <<"kpi_revenue_summary">>
      [] op = "get_product_performance" -> <<"kpi_product_performance">>
      [] op = "get_dashboard_summary" ->
             <<"kpi_platform_overview", "kpi_daily_snapshot">>

FacadeOps ==
    {"get_platform_overview", "get_daily_snapshots", "get_revenue_by_platform",
     "get_product_performance", "get_dashboard_summary"}

\* the arguments of a facade operation when the request names none: the
\* defaults of the handlers (limit 30 days, 50 products) and the limit=7 of
\* get_dashboard_summary ("" is no platform / no tier)
DefaultArgs(op) ==
    [start_date |-> Null, end_date |-> Null,
     limit |-> CASE op = "get_dashboard_summary" -> 7
                 [] op = "get_product_performance" -> 50
                 [] OTHER -> 30,
     platform |-> "", tier |-> ""]

\* the result sets a read of the rows may return to a call with arguments args
QueryResults(args, t, rows, date_today) ==
    CASE t = "kpi_platform_overview" -> get_platform_overview(rows)
      [] t = "kpi_daily_snapshot" ->
             {get_daily_snapshots(rows, args.start_date, args.end_date, args.limit,
                                  date_today)}
      [] t = "kpi_revenue_summary" ->
             {get_revenue_by_platform(rows, args.platform, args.start_date,
                                      args.end_date, date_today)}
      [] t = "kpi_product_performance" ->
             get_product_performance(rows, args.platform, args.tier, args.limit)

\* what a handler returns from the result sets its service call read
facade_result(op, got) ==
    IF op = "get_dashboard_summary" THEN get_dashboard_summary(got[1], got[2])
    ELSE got[1]

IdleRd ==
    [op |-> "none", args |-> DefaultArgs("none"), step |-> 0, held |-> {},
     got |-> <<>>, result |-> Null]

\* a GET /kpis/... request without query parameters is received and opens
\* its own session
facade_call ==
    /\ rd.op = "none"
    /\ \E op \in FacadeOps :
          rd' = [op |-> op, args |-> DefaultArgs(op), step |-> 1, held |-> {},
                 got |-> <<>>, result |-> Null]
    /\ UNCHANGED <<STORE_CONNECTIONS, store_response, raw, today, views, marts, pc, txViews, txMarts, xlocks, response,
                   rebuilds, raisedAt, ending, preViews, preMarts, obs>>

\* the query parameters a request may carry and FastAPI lets through: dates
\* (or none), limit within ge=1 and the handler's le, a Platform (or none),
\* any string as tier
ArgDates == {Null, <<1>>, <<32>>}
ArgLimits == {1, 7, 30}
ArgPlatforms == {"", "shopify", "lazada"}
ArgTiers == {"", "Top 10", "Average", "Gold"}

RequestArgs(op) ==
    CASE op = "get_daily_snapshots" ->
             {[DefaultArgs(op) EXCEPT !.start_date = b, !.end_date = e, !.limit = n] :
                 b \in ArgDates, e \in ArgDates, n \in ArgLimits}
      [] op = "get_revenue_by_platform" ->
             {[DefaultArgs(op) EXCEPT !.start_date = b, !.end_date = e, !.platform = p] :
                 b \in ArgDates, e \in ArgDates, p \in ArgPlatforms}
      [] op = "get_product_performance" ->
             {[DefaultArgs(op) EXCEPT !.platform = p, !.tier = t, !.limit = n] :
                 p \in ArgPlatforms, t \in ArgTiers, n \in {1, 50}}
      [] OTHER -> {DefaultArgs(op)}

\* a GET /kpis/... request with query parameters is received
facade_call_with ==
    /\ rd.op = "none"
    /\ \E op \in FacadeOps : \E args \in RequestArgs(op) :
          rd' = [op |-> op, args |-> args, step |-> 1, held |-> {}, got |-> <<>>,
                 result |-> Null]
    /\ UNCHANGED <<STORE_CONNECTIONS, store_response, raw, today, views, marts, pc, txViews, txMarts, xlocks, response,
                   rebuilds, raisedAt, ending, preViews, preMarts, obs>>

\* await self.db.execute(query): waits while the rebuild holds the table;
\* a missing table raises, the handler answers HTTP 500 and the session closes
facade_read ==
    /\ rd.op # "none"
    /\ rd.step <= Len(ReadsOf(rd.op))
    /\ LET t == ReadsOf(rd.op)[rd.step]
           seen == visible(marts, txMarts, t)
       IN  /\ t \notin xlocks
           /\ obs' = IF pc # 0 THEN [table |-> t, seen |-> seen, midway |-> txMarts # marts]
                      ELSE obs
           /\ IF seen.exists
              THEN \E res \in QueryResults(rd.args, t, seen.rows, today) :
                      rd' = [rd EXCEPT
                                !.step = rd.step + 1,
                                !.held = rd.held \cup {t},
                                !.got = Append(rd.got, res),
                                !.result =
                                    IF rd.step = Len(ReadsOf(rd.op))
                                    THEN facade_result(rd.op, Append(rd.got, res))
                                    ELSE Null]
              ELSE rd' = IdleRd
    /\ UNCHANGED <<STORE_CONNECTIONS, store_response, raw, today, views, marts, pc, txViews, txMarts, xlocks, response,
                   rebuilds, raisedAt, ending, preViews, preMarts>>

\* the handler returns its result; get_db closes the session
facade_return ==
    /\ rd.op # "none"
    /\ rd.step = Len(ReadsOf(rd.op)) + 1
    /\ rd' = IdleRd
    /\ UNCHANGED <<STORE_CONNECTIONS, store_response, raw, today, views, marts, pc, txViews, txMarts, xlocks, response,
                   rebuilds, raisedAt, ending, preViews, preMarts, obs>>

\* ---------------------------------------------------- the store registry
\* the members of the Platform enum
Platform == {"shopify", "amazon", "lazada", "shopee"}

\* the entry of a platform at import time
not_connected_entry(p) ==
    [platform |-> p, is_connected |-> FALSE, last_sync |-> Null,
     status |-> "not_connected", connection_id |-> Null]

\* the entry connect_store stores
connected_entry(p) ==
    [platform |-> p, is_connected |-> TRUE, last_sync |-> Null,
     status |-> "connected", connection_id |-> <<"airbyte-" \o p \o "-001">>]

\* (mutation) a disconnect that keeps the connection id
disconnected_entry_keeps_id(p) ==
    [platform |-> p, is_connected |-> FALSE, last_sync |-> Null,
     status |-> "disconnected", connection_id |-> <<"airbyte-" \o p \o "-001">>]

\* the entry disconnect_store stores
disconnected_entry(p) ==
    [platform |-> p, is_connected |-> FALSE, last_sync |-> Null,
     status |-> "disconnected", connection_id |-> Null]

\* what a /stores handler answers: the status, the message or detail, the
\* job_id of a triggered sync and the entry returned (if any)
StoreResponse(status_code, message, job_id, entry) ==
    [status_code |-> status_code, message |-> message, job_id |-> job_id,
     entry |-> entry]

NoStoreResponse == StoreResponse(0, "none", "", Null)

\* what the rebuild and the facade leave alone, and the registry handlers in
\* turn
served == <<raw, today, views, marts, pc, txViews, txMarts, xlocks, response,
            rebuilds, raisedAt, ending, preViews, preMarts, rd, obs>>

\* POST /stores/connect
connect_store ==
    /\ \E p \in Platform :
          /\ STORE_CONNECTIONS' = [STORE_CONNECTIONS EXCEPT ![p] = connected_entry(p)]
          /\ store_response' = StoreResponse(200, "", "", <<connected_entry(p)>>)
    /\ UNCHANGED served

\* DELETE /stores/{platform}
disconnect_store ==
    /\ \E p \in Platform :
          IF p \notin DOMAIN STORE_CONNECTIONS
          THEN /\ store_response' =
                      StoreResponse(404, "Platform " \o p \o " not found", "", Null)
               /\ UNCHANGED STORE_CONNECTIONS
          ELSE /\ STORE_CONNECTIONS' =
                      [STORE_CONNECTIONS EXCEPT ![p] = disconnected_entry(p)]
               /\ store_response' =
                      StoreResponse(200, "Successfully disconnected " \o p, "", Null)
    /\ UNCHANGED served

\* POST /stores/{platform}/sync
trigger_sync ==
    /\ \E p \in Platform :
          store_response' =
              IF p \notin DOMAIN STORE_CONNECTIONS
              THEN StoreResponse(404, "Platform " \o p \o " not found", "", Null)
              ELSE IF ~STORE_CONNECTIONS[p].is_connected
              THEN StoreResponse(400, "Platform " \o p \o " is not connected", "",
                                 Null)
              ELSE StoreResponse(200, "Sync triggered for " \o p,
                                 "sync-" \o p \o "-001", Null)
    /\ UNCHANGED STORE_CONNECTIONS
    /\ UNCHANGED served

\* --------------------------------------------------------- specifications
\* current_date: 2024-02-15
CurrentDates == {46}

InitRest ==
    /\ today \in CurrentDates
    /\ views = {}
    /\ marts = [t \in MartTables |-> NoTable]
    /\ pc = 0
    /\ txViews = {}
    /\ txMarts = [t \in MartTables |-> NoTable]
    /\ xlocks = {}
    /\ response = NoResponse
    /\ raisedAt = 0
    /\ ending = "none"
    /\ preViews = {}
    /\ preMarts = [t \in MartTables |-> NoTable]
    /\ rd = IdleRd
    /\ obs = NoObs
    /\ STORE_CONNECTIONS = [p \in Platform |-> not_connected_entry(p)]
    /\ store_response = NoStoreResponse

\* a fresh database, served while the sync lands orders
Init ==
    /\ raw = EmptyRaw
    /\ rebuilds = 0
    /\ InitRest

Next ==
    \/ sync
    \/ run_dbt_models_call
    \/ exec_create_view
    \/ exec_drop_table
    \/ exec_create_table_as
    \/ exec_commit
    \/ run_dbt_models_return
    \/ run_dbt_models_except
    \/ run_dbt_models_cancel
    \/ facade_call
    \/ facade_read
    \/ facade_return

Spec == Init /\ [][Next]_vars

\* one rebuild over a landed data set, run to its end
InitAgg ==
    /\ raw \in PoolDataSets \cup SeriesDataSets \cup FreeOrderDataSets
                 \cup CatalogueDataSets \cup CurrencyDataSets
                 \cup OrphanItemDataSets
    /\ rebuilds = MaxRebuilds - 1
    /\ InitRest

NextAgg ==
    \/ run_dbt_models_call
    \/ exec_create_view
    \/ exec_drop_table
    \/ exec_create_table_as
    \/ exec_commit
    \/ run_dbt_models_return

SpecAgg == InitAgg /\ [][NextAgg]_vars

\* one rebuild over a raw layer of which one platform may lack a column
InitSchema ==
    /\ raw \in DegradedDataSets \cup {r \in PoolDataSets : RawSize(r) <= 1}
    /\ rebuilds = MaxRebuilds - 1
    /\ InitRest

NextSchema ==
    \/ run_dbt_models_call
    \/ exec_create_view
    \/ exec_create_view_undefined_column
    \/ exec_drop_table
    \/ exec_create_table_as
    \/ exec_commit
    \/ run_dbt_models_return

SpecSchema == InitSchema /\ [][NextSchema]_vars

\* current_date: 2024-01-08, a week after the first landed orders
DashboardDates == {8}

\* a fresh database, served in the week after the first orders landed
InitDashboard ==
    /\ raw = EmptyRaw
    /\ rebuilds = 0
    /\ today \in DashboardDates
    /\ views = {}
    /\ marts = [t \in MartTables |-> NoTable]
    /\ pc = 0
    /\ txViews = {}
    /\ txMarts = [t \in MartTables |-> NoTable]
    /\ xlocks = {}
    /\ response = NoResponse
    /\ raisedAt = 0
    /\ ending = "none"
    /\ preViews = {}
    /\ preMarts = [t \in MartTables |-> NoTable]
    /\ rd = IdleRd
    /\ obs = NoObs
    /\ STORE_CONNECTIONS = [p \in Platform |-> not_connected_entry(p)]
    /\ store_response = NoStoreResponse

SpecDashboard == InitDashboard /\ [][Next]_vars

\* the store registry of a freshly started process, under its handlers
NextStores ==
    \/ connect_store
    \/ disconnect_store
    \/ trigger_sync

SpecStores == Init /\ [][NextStores]_vars

\* the raw layers whose rollup generation the facade is queried on
QueryDataSets ==
    {r \in PoolDataSets : RawSize(r) <= 2}
        \cup {RawOf({SeriesOrder(d, 100) : d \in 1..16}, {}, {}, {}),
               RawOf({SeriesOrder(d, 100) : d \in 39..46}, {}, {}, {})}
        \cup {[RawOf({o \in ShopifyOrderPool : o.id \in {1001, 1003}}, {}, {}, {})
                  EXCEPT !.shopee_orders = {CurrencyOrder("PHP", 1)}]}

\* the facade serving the rollup generation of a completed rebuild
InitQuery ==
    /\ raw \in QueryDataSets
    /\ today \in CurrentDates
    /\ views = StagingViews \cup IntermediateViews
    /\ \E scan \in ScanOrders(raw) :
          marts = [t \in MartTables |-> Table(create_table_as(t, raw, today, scan))]
    /\ txViews = views
    /\ txMarts = marts
    /\ pc = 0
    /\ xlocks = {}
    /\ response = success_response
    /\ rebuilds = MaxRebuilds
    /\ raisedAt = 0
    /\ ending = "returned"
    /\ preViews = {}
    /\ preMarts = [t \in MartTables |-> NoTable]
    /\ rd = IdleRd
    /\ obs = NoObs
    /\ STORE_CONNECTIONS = [p \in Platform |-> not_connected_entry(p)]
    /\ store_response = NoStoreResponse

NextQuery ==
    \/ facade_call_with
    \/ facade_read
    \/ facade_return

SpecQuery == InitQuery /\ [][NextQuery]_vars

\* ----------------------------------------------------------------- claims
PO == "kpi_platform_overview"
DS == "kpi_daily_snapshot"

\* the final db.commit() of the last rebuild has been done
FinalCommitDone == Returning \/ (pc = 0 /\ ending = "returned")

\* C1: a rollup read made while a rebuild executes returns the whole table
\* as it was when the rebuild was called or, once the rebuild's final commit
\* is done, the whole table that commit published; never a dropped, empty
\* or half-built table.
C1_ReadersSeeWholeGeneration ==
    obs.table # "none" =>
        \/ obs.seen = preMarts[obs.table]
        \/ FinalCommitDone /\ obs.seen = marts[obs.table]

\* a read of a populated rollup made while the rebuild had already dropped
\* or rebuilt rollups in its open transaction
C1_Witness ==
    /\ Running /\ Program[pc].kind # "create_view"
    /\ obs.table # "none" /\ obs.midway
    /\ obs.seen.exists /\ obs.seen.rows # {}
    /\ txMarts # marts

\* C2: after a rebuild that raised, every rollup table is what it was when
\* the rebuild was called, also when the rebuild had dropped or recreated
\* rollups before it raised.
C2_FailedRebuildRestoresRollups ==
    (pc = 0 /\ ending = "raised") => marts = preMarts

\* a rebuild that raised after dropping and recreating the platform
\* overview, over a previous generation that the new data would change
C2_Witness ==
    /\ pc = 0 /\ ending = "raised"
    /\ raisedAt > 14
    /\ marts[PO].exists
    /\ marts[PO].rows # kpi_platform_overview(raw, today)

\* C3 (as claimed): after a rebuild that raised, neither the view
\* definitions nor the rollup tables differ from what they were when the
\* rebuild was called.
C3_FailedRebuildLeavesNoEffect ==
    (pc = 0 /\ ending = "raised") => (views = preViews /\ marts = preMarts)

\* C4: after a rebuild cancelled at an await before its final commit, every
\* rollup table is what it was when the rebuild was called.
C4_CancelledRebuildPublishesNothing ==
    (pc = 0 /\ ending = "cancelled") => marts = preMarts

\* a rebuild cancelled after it dropped and recreated the platform
\* overview, over a previous generation that the new data would change
C4_Witness ==
    /\ pc = 0 /\ ending = "cancelled"
    /\ raisedAt > 14
    /\ marts[PO].exists
    /\ marts[PO].rows # kpi_platform_overview(raw, today)

\* C5: a rebuild in which a statement raised answers HTTP 500 'Model
\* creation failed'; it answers success only if no statement raised, every
\* staging and unified view and every rollup table exists, and the final
\* commit was done (nothing is left uncommitted).
C5_FailureIsReported ==
    /\ (pc = 0 /\ ending = "raised") =>
            /\ response.status_code = 500
            /\ response.detail = "Model creation failed"
    /\ response = success_response =>
            /\ ending = "returned" /\ raisedAt = 0
            /\ StagingViews \cup IntermediateViews \subseteq views
            /\ \A t \in MartTables : marts[t].exists
            /\ txMarts = marts /\ txViews = views /\ xlocks = {}

\* a rebuild that raised in the mart phase and answered HTTP 500
C5_Witness ==
    /\ pc = 0 /\ ending = "raised" /\ raisedAt > 12
    /\ response = except_response

\* the unified orders of the raw layer that are not cancelled, on date d
LiveOn(d) ==
    {o \in int_unified_orders(raw) : o.order_date = d /\ IsNull(o.order_cancelled_at)}

\* C6 (as claimed): total_orders of a snapshot date is the number of distinct
\* (order_id, platform) pairs of that date's non-cancelled orders, and so the
\* sum of the four per-platform order counts.
C6_TotalOrdersCountsCompositeKeys ==
    marts[DS].exists =>
        \A x \in marts[DS].rows :
            /\ x.total_orders =
                   Cardinality({<<o.order_id, o.platform>> : o \in LiveOn(x.order_date)})
            /\ x.total_orders =
                   x.shopify_orders + x.amazon_orders + x.lazada_orders + x.shopee_orders

\* C7: the snapshot has a row for exactly the dates with a non-cancelled
\* order; its total_revenue_usd is the sum of total_amount_usd over that
\* date's non-cancelled orders and its total_orders counts their order ids;
\* two storefront orders of 100.00 and 50.00 on one date, the second
\* cancelled, give total_orders = 1 and total_revenue_usd = 100.00.
C7_SnapshotExcludesCancelled ==
    marts[DS].exists =>
        /\ {x.order_date : x \in marts[DS].rows} =
               {o.order_date : o \in {u \in int_unified_orders(raw) :
                                         IsNull(u.order_cancelled_at)}}
        /\ \A x \in marts[DS].rows :
              /\ x.total_revenue_usd =
                     RSum(usd_of(LiveOn(x.order_date)), LiveOn(x.order_date))
              /\ x.total_orders =
                     Cardinality({o.order_id : o \in LiveOn(x.order_date)})
        /\ (raw = RawOf({o \in ShopifyOrderPool : o.id \in {1001, 1002}}, {}, {}, {})
               => \E x \in marts[DS].rows :
                      /\ x.order_date = 1
                      /\ x.total_orders = 1
                      /\ x.total_revenue_usd = RInt(100))

\* the snapshot built over the two storefront orders of 2024-01-01, of
\* 100.00 and 50.00 USD, the second cancelled
C7_Witness ==
    /\ marts[DS].exists
    /\ raw = RawOf({o \in ShopifyOrderPool : o.id \in {1001, 1002}}, {}, {}, {})
    /\ \E x \in marts[DS].rows : x.total_orders = 1 /\ x.total_revenue_usd = RInt(100)

\* (this - last) / last x 100, exactly
ExactGrowth(this, last) == RDiv(RMul(RInt(100), RSub(this, last)), last)

\* x is y rounded to two decimals: a whole number of hundredths within half
\* a hundredth of y
IsRoundedTo2(x, y) ==
    /\ 100 % x[2] = 0
    /\ RLe(RSub(x, y), Rat(1, 200))
    /\ RLe(RSub(y, x), Rat(1, 200))

\* C8 (as claimed): the month-over-month growth of a platform row is exactly
\* (this - last) / last x 100 when last is not 0, and 0 when last is 0.
C8_GrowthIsExactQuotient ==
    marts[PO].exists =>
        \A x \in marts[PO].rows :
            /\ x.revenue_mom_growth_pct =
                   IF x.revenue_last_month_usd # RZero
                   THEN ExactGrowth(x.revenue_this_month_usd, x.revenue_last_month_usd)
                   ELSE RZero
            /\ x.orders_mom_growth_pct =
                   IF x.orders_last_month # 0
                   THEN ExactGrowth(RInt(x.orders_this_month), RInt(x.orders_last_month))
                   ELSE RZero

\* C8 (amended): the growth is (this - last) / last x 100 rounded to two
\* decimals when last is greater than 0, and exactly 0 otherwise, so
\* whenever last is 0; this = 150 and last = 100 give 50.
C8_GrowthIsRoundedQuotient ==
    marts[PO].exists =>
        \A x \in marts[PO].rows :
            /\ IF RGt(x.revenue_last_month_usd, RZero)
               THEN IsRoundedTo2(x.revenue_mom_growth_pct,
                        ExactGrowth(x.revenue_this_month_usd, x.revenue_last_month_usd))
               ELSE x.revenue_mom_growth_pct = RZero
            /\ IF x.orders_last_month > 0
               THEN IsRoundedTo2(x.orders_mom_growth_pct,
                        ExactGrowth(RInt(x.orders_this_month), RInt(x.orders_last_month)))
               ELSE x.orders_mom_growth_pct = RZero
            /\ (x.revenue_this_month_usd = RInt(150)
                    /\ x.revenue_last_month_usd = RInt(100))
                   => x.revenue_mom_growth_pct = RInt(50)

\* a platform row of this = 150 over last = 100, with growth 50, beside a
\* platform row with revenue this month over a baseline of 0, with growth 0
C8_Witness ==
    /\ marts[PO].exists
    /\ \E x \in marts[PO].rows :
          /\ x.revenue_this_month_usd = RInt(150)
          /\ x.revenue_last_month_usd = RInt(100)
          /\ x.revenue_mom_growth_pct = RInt(50)
    /\ \E x \in marts[PO].rows :
          /\ x.revenue_last_month_usd = RZero
          /\ RGt(x.revenue_this_month_usd, RZero)
          /\ x.revenue_mom_growth_pct = RZero
          /\ x.orders_last_month = 0
          /\ x.orders_mom_growth_pct = RZero

\* a rate that is defined lies between 0 and 100
InPercentRange(v) == IsNull(v) \/ (RLe(RZero, v) /\ RLe(v, RInt(100)))

\* C9 (as claimed): payment_rate, fulfillment_rate and cancellation_rate of
\* every platform row lie between 0 and 100.
C9_RatesArePercentages ==
    marts[PO].exists =>
        \A x \in marts[PO].rows :
            /\ InPercentRange(x.payment_rate)
            /\ InPercentRange(x.fulfillment_rate)
            /\ InPercentRange(x.cancellation_rate)

\* the snapshot rows in ascending date order
SnapshotSeq ==
    LET q == order_by_date({x.order_date : x \in marts[DS].rows})
    IN  [i \in 1..Len(q) |-> CHOOSE x \in marts[DS].rows : x.order_date = q[i]]

\* avg is the mean of total_revenue_usd over row i and the up to n rows
\* before it
IsTrailingMean(avg, q, i, n) ==
    LET W == {j \in 1..Len(q) : j <= i /\ i - j <= n}
    IN  /\ ~IsNull(avg)
        /\ RMul(avg, RInt(Cardinality(W))) =
               RSum([j \in W |-> q[j].total_revenue_usd], W)

\* C10: revenue_7d_avg (revenue_30d_avg) of the i-th snapshot row in date
\* order is the mean of total_revenue_usd over that row and the up to 6 (29)
\* rows before it, never null; over a series of constant daily revenue it
\* equals that revenue in every row.
C10_TrailingAverages ==
    marts[DS].exists =>
        LET q == SnapshotSeq
        IN  /\ \A i \in 1..Len(q) :
                  /\ IsTrailingMean(q[i].revenue_7d_avg, q, i, 6)
                  /\ IsTrailingMean(q[i].revenue_30d_avg, q, i, 29)
            /\ (\A i, j \in 1..Len(q) : q[i].total_revenue_usd = q[j].total_revenue_usd)
                   => \A i \in 1..Len(q) :
                          /\ q[i].revenue_7d_avg = q[i].total_revenue_usd
                          /\ q[i].revenue_30d_avg = q[i].total_revenue_usd

\* a snapshot of more than 30 rows whose last row has a 30-row average that
\* differs from its 7-row average and from its own revenue
C10_Witness ==
    /\ marts[DS].exists
    /\ LET q == SnapshotSeq
       IN  /\ Len(q) > 30
           /\ q[Len(q)].revenue_30d_avg # q[Len(q)].revenue_7d_avg
           /\ q[Len(q)].revenue_30d_avg # q[Len(q)].total_revenue_usd
           /\ q[1].revenue_7d_avg = q[1].total_revenue_usd

\* C11: in the snapshot ordered by date, revenue_dod_change and
\* orders_dod_change of row i are the row's value minus that of row i - 1,
\* and revenue_wow_change and orders_wow_change the row's value minus that of
\* row i - 7; in the first row (the first 7 rows) they are null, not 0.
C11_DeltasAgainstEarlierRows ==
    marts[DS].exists =>
        LET q == SnapshotSeq
        IN  \A i \in 1..Len(q) :
                /\ q[i].revenue_dod_change =
                       IF i > 1
                       THEN RSub(q[i].total_revenue_usd, q[i - 1].total_revenue_usd)
                       ELSE Null
                /\ q[i].orders_dod_change =
                       IF i > 1
                       THEN RInt(q[i].total_orders - q[i - 1].total_orders)
                       ELSE Null
                /\ q[i].revenue_wow_change =
                       IF i > 7
                       THEN RSub(q[i].total_revenue_usd, q[i - 7].total_revenue_usd)
                       ELSE Null
                /\ q[i].orders_wow_change =
                       IF i > 7
                       THEN RInt(q[i].total_orders - q[i - 7].total_orders)
                       ELSE Null

\* a snapshot of more than 8 rows with a week-over-week change of 70.00
\* and a day-over-day change of -70.00, null in the first rows
C11_Witness ==
    /\ marts[DS].exists
    /\ LET q == SnapshotSeq
       IN  /\ Len(q) > 8
           /\ IsNull(q[1].revenue_dod_change)
           /\ IsNull(q[7].revenue_wow_change)
           /\ \E i \in 8..Len(q) : q[i].revenue_wow_change = RInt(70)
           /\ \E i \in 2..Len(q) : q[i].revenue_dod_change = RInt(-70)

RS == "kpi_revenue_summary"
PP == "kpi_product_performance"

\* the revenue summary rows of platform p in the calendar month of date d,
\* dated d or earlier
MonthToDate(d, p) ==
    {y \in marts[RS].rows :
        /\ y.platform = p
        /\ date_trunc_month(y.order_date) = date_trunc_month(d)
        /\ y.order_date <= d}

\* C12: mtd_revenue_usd (mtd_orders) of the revenue summary row of date d and
\* platform p is the sum of gross_revenue_usd (total_orders) over the rows of
\* platform p dated in the calendar month of d and not after d; rows of other
\* platforms and of earlier months do not contribute.
C12_MonthToDateSums ==
    marts[RS].exists =>
        \A x \in marts[RS].rows :
            LET W == MonthToDate(x.order_date, x.platform)
            IN  /\ x.mtd_revenue_usd = RSum([y \in W |-> y.gross_revenue_usd], W)
                /\ x.mtd_orders = RInt(ISum([y \in W |-> y.total_orders], W))

\* a platform with rows on two dates of January, the second carrying the sum
\* of both, and a row on the first of February that carries its own revenue
\* only, beside rows of the month before
C12_Witness ==
    /\ marts[RS].exists
    /\ \E x, y, z \in marts[RS].rows :
          /\ x.platform = y.platform /\ y.platform = z.platform
          /\ x.order_date = 1 /\ y.order_date = 2 /\ z.order_date = 32
          /\ y.mtd_revenue_usd = RAdd(x.gross_revenue_usd, y.gross_revenue_usd)
          /\ RGt(x.gross_revenue_usd, RZero)
          /\ z.mtd_revenue_usd = z.gross_revenue_usd
          /\ z.mtd_orders = RInt(z.total_orders)

\* the revenue summary rows of the platform of x dated before x
EarlierRows(x) ==
    {y \in marts[RS].rows : y.platform = x.platform /\ y.order_date < x.order_date}

\* the row of the immediately preceding date of the platform of x
PrecedingRow(x) ==
    CHOOSE y \in EarlierRows(x) : \A z \in EarlierRows(x) : z.order_date <= y.order_date

\* C13 (as claimed): revenue_growth_pct of a revenue summary row is exactly
\* (current - previous) / previous x 100 against the row of the preceding
\* date of the same platform when previous is not 0, and 0 when previous is 0.
C13_GrowthIsExactQuotient ==
    marts[RS].exists =>
        \A x \in marts[RS].rows :
            EarlierRows(x) # {} =>
                x.revenue_growth_pct =
                    IF PrecedingRow(x).gross_revenue_usd # RZero
                    THEN ExactGrowth(x.gross_revenue_usd,
                                     PrecedingRow(x).gross_revenue_usd)
                    ELSE RZero

\* C13 (amended): revenue_growth_pct of a revenue summary row is
\* (current - previous) / previous x 100 rounded to two decimals, previous
\* being gross_revenue_usd of the preceding date of the same platform, when
\* previous is greater than 0; it is exactly 0 otherwise, so when previous
\* is 0 and when the platform has no earlier row.
C13_GrowthIsRoundedQuotient ==
    marts[RS].exists =>
        \A x \in marts[RS].rows :
            IF EarlierRows(x) # {} /\ RGt(PrecedingRow(x).gross_revenue_usd, RZero)
            THEN IsRoundedTo2(x.revenue_growth_pct,
                     ExactGrowth(x.gross_revenue_usd, PrecedingRow(x).gross_revenue_usd))
            ELSE x.revenue_growth_pct = RZero

\* a platform whose row of day 2 has no revenue, with growth -100 against
\* day 1, and whose row of day 3 has growth 0 over that baseline of 0
C13_Witness ==
    /\ marts[RS].exists
    /\ \E x, y, z \in marts[RS].rows :
          /\ x.platform = y.platform /\ y.platform = z.platform
          /\ x.order_date = 1 /\ y.order_date = 2 /\ z.order_date = 3
          /\ RGt(x.gross_revenue_usd, RZero)
          /\ y.gross_revenue_usd = RZero
          /\ y.revenue_growth_pct = RInt(-100)
          /\ RGt(z.gross_revenue_usd, RZero)
          /\ z.revenue_growth_pct = RZero

\* the tier rule, first match first
TierRule(rank, percentile) ==
    IF rank <= 10 THEN "Top 10"
    ELSE IF RLe(Rat(4, 5), percentile) THEN "Top Performer"
    ELSE IF RLe(Rat(1, 2), percentile) THEN "Average"
    ELSE "Underperformer"

\* C14: performance_tier of every product performance row is the first match
\* of: revenue_rank <= 10 'Top 10'; revenue_percentile >= 0.8 'Top
\* Performer'; revenue_percentile >= 0.5 'Average'; else 'Underperformer';
\* rank 10 is 'Top 10' and rank 11 at percentile 0.8 is 'Top Performer'.
C14_TierByFirstMatchingRule ==
    marts[PP].exists =>
        \A x \in marts[PP].rows :
            /\ x.performance_tier = TierRule(x.revenue_rank, x.revenue_percentile)
            /\ x.revenue_rank = 10 => x.performance_tier = "Top 10"
            /\ (x.revenue_rank = 11 /\ x.revenue_percentile = Rat(4, 5))
                   => x.performance_tier = "Top Performer"

\* a catalogue with a 'Top 10' row of rank 10 at a percentile under 0.8, a
\* 'Top Performer' row of rank 11 at percentile exactly 0.8, an 'Average'
\* row at percentile exactly 0.5 and an 'Underperformer' row
C14_Witness ==
    /\ marts[PP].exists
    /\ \E x \in marts[PP].rows :
          x.revenue_rank = 10 /\ x.performance_tier = "Top 10"
    /\ \E x \in marts[PP].rows :
          /\ x.revenue_rank = 11 /\ x.revenue_percentile = Rat(4, 5)
          /\ x.performance_tier = "Top Performer"
    /\ \E x \in marts[PP].rows :
          x.revenue_percentile = Rat(1, 2) /\ x.performance_tier = "Average"
    /\ \E x \in marts[PP].rows : x.performance_tier = "Underperformer"

\* the product performance rows of platform p
ProductsOf(p) == {x \in marts[PP].rows : x.platform = p}

\* C15: within each platform the revenue_rank values of its N product
\* performance rows are the numbers 1..N, each used once, and likewise the
\* units_rank values; a row of higher total_revenue has the lower
\* revenue_rank, so over strictly ordered revenues rank 1 is the highest.
C15_RanksArePermutations ==
    marts[PP].exists =>
        \A p \in {x.platform : x \in marts[PP].rows} :
            LET R == ProductsOf(p)
                N == Cardinality(R)
            IN  /\ \A n \in 1..N :
                      /\ Cardinality({x \in R : x.revenue_rank = n}) = 1
                      /\ Cardinality({x \in R : x.units_rank = n}) = 1
                /\ \A x \in R : x.revenue_rank \in 1..N /\ x.units_rank \in 1..N
                /\ \A x, y \in R :
                      RGt(x.total_revenue, y.total_revenue)
                          => x.revenue_rank < y.revenue_rank

\* a platform of more than 10 products, two of them tied in revenue and in
\* units, whose top row has rank 1 and whose tied rows have different ranks
C15_Witness ==
    /\ marts[PP].exists
    /\ \E x, y, z \in marts[PP].rows :
          /\ x.platform = y.platform /\ y.platform = z.platform
          /\ Cardinality(ProductsOf(x.platform)) > 10
          /\ x # y
          /\ x.total_revenue = y.total_revenue
          /\ x.total_units_sold = y.total_units_sold
          /\ x.revenue_rank # y.revenue_rank
          /\ x.units_rank # y.units_rank
          /\ z.revenue_rank = 1
          /\ RGt(z.total_revenue, x.total_revenue)

\* the rows of the platform of x with a strictly lower total_revenue
LowerRevenue(x) ==
    {y \in ProductsOf(x.platform) : RLt(y.total_revenue, x.total_revenue)}

\* C16 (as claimed): revenue_percentile of a product performance row is the
\* number of its platform's products of strictly lower total_revenue divided
\* by the number of its platform's products.
C16_PercentileIsFractionBelow ==
    marts[PP].exists =>
        \A x \in marts[PP].rows :
            x.revenue_percentile =
                Rat(Cardinality(LowerRevenue(x)), Cardinality(ProductsOf(x.platform)))

\* C17 (as claimed): every rebuild over the same unified data builds the same
\* product performance table: the table in place is the table a rebuild
\* over the raw layer builds, in whatever order the engine hands the tied
\* product rows to row_number().
C17_RanksAreAFunctionOfTheData ==
    marts[PP].exists =>
        \A scan \in ScanOrders(raw) :
            kpi_product_performance(raw, today, scan) = marts[PP].rows

\* the rows of public_intermediate.int_unified_orders, once the view exists
UnifiedOrders ==
    IF "int_unified_orders" \in views THEN int_unified_orders(raw) ELSE {}

\* C18: a unified order of any platform has is_cancelled true exactly when
\* its order_cancelled_at is not null.
C18_CancelledIffCancelledAt ==
    \A o \in UnifiedOrders : o.is_cancelled <=> ~IsNull(o.order_cancelled_at)

\* unified orders of two platforms that are cancelled, one by its
\* cancelled_at and one by its marketplace status, beside a live order
C18_Witness ==
    /\ \E o \in UnifiedOrders :
          o.platform = "shopify" /\ o.is_cancelled /\ o.order_cancelled_at = <<2>>
    /\ \E o \in UnifiedOrders :
          /\ o.platform = "shopee" /\ o.is_cancelled
          /\ o.fulfillment_status = "CANCELLED"
    /\ \E o \in UnifiedOrders : ~o.is_cancelled /\ IsNull(o.order_cancelled_at)

\* the shared payment-status vocabulary
PaymentStatusVocabulary ==
    {"pending", "authorized", "partially_paid", "paid", "partially_refunded",
     "refunded", "voided", "unknown"}

\* C19 (as claimed): the payment_status of a unified order of any platform
\* is drawn from the shared payment-status vocabulary, and is_paid is true
\* exactly when it is one of paid, authorized, partially_paid.
C19_PaymentStatusInSharedVocabulary ==
    \A o \in UnifiedOrders :
        /\ o.payment_status \in PaymentStatusVocabulary
        /\ o.is_paid <=> o.payment_status \in {"paid", "authorized", "partially_paid"}

\* the currencies of the multiplier table with their multipliers
MultiplierTable ==
    {<<"PHP", Rat(18, 1000)>>, <<"MYR", Rat(21, 100)>>, <<"SGD", Rat(74, 100)>>,
     <<"IDR", Rat(63, 1000000)>>}

\* C20: total_amount_usd of a unified order is total_amount when its
\* currency_code is USD or is not in the multiplier table, and total_amount
\* times the table's multiplier otherwise (5500.00 PHP of a lazada order give
\* 99.00); converting the USD amount again as USD leaves it unchanged.
C20_UsdConversion ==
    \A o \in UnifiedOrders :
        /\ (\A m \in MultiplierTable : m[1] # o.currency_code)
               => o.total_amount_usd = o.total_amount
        /\ \A m \in MultiplierTable :
               m[1] = o.currency_code
                   => o.total_amount_usd = RMul(o.total_amount, m[2])
        /\ (o.platform = "lazada" /\ o.total_amount = RInt(5500))
               => o.total_amount_usd = RInt(99)
        /\ total_amount_usd([o EXCEPT !.total_amount = o.total_amount_usd,
                                      !.currency_code = "USD"])
               = o.total_amount_usd

\* unified orders in USD and in an unlisted currency, unchanged, beside
\* converted orders in each listed currency and the lazada order of 5500.00
\* PHP at 99.00 USD
C20_Witness ==
    /\ \E o \in UnifiedOrders :
          o.currency_code = "USD" /\ o.total_amount_usd = RInt(10)
    /\ \E o \in UnifiedOrders :
          o.currency_code = "EUR" /\ o.total_amount_usd = RInt(10)
    /\ \E o \in UnifiedOrders :
          /\ o.platform = "lazada" /\ o.currency_code = "PHP"
          /\ o.total_amount = RInt(5500) /\ o.total_amount_usd = RInt(99)
    /\ \E o \in UnifiedOrders :
          o.currency_code = "MYR" /\ o.total_amount_usd = RInt(21)
    /\ \E o \in UnifiedOrders :
          o.currency_code = "SGD" /\ o.total_amount_usd = RInt(74)
    /\ \E o \in UnifiedOrders :
          o.currency_code = "IDR" /\ o.total_amount_usd = RInt(63)

\* C21: the unified orders hold exactly one row per (order_id, platform): no
\* two rows share both order_id and platform (the same order_id may appear
\* under different platforms).
C21_OneRowPerOrderAndPlatform ==
    \A x, y \in UnifiedOrders :
        (x.order_id = y.order_id /\ x.platform = y.platform) => x = y

\* the unified orders hold order_id 1001 once under shopify and once under
\* lazada
C21_Witness ==
    /\ Cardinality({x \in UnifiedOrders : x.order_id = "1001"}) = 2
    /\ {x.platform : x \in {y \in UnifiedOrders : y.order_id = "1001"}}
           = {"shopify", "lazada"}

\* the unified order items as the committed catalogue gives them
UnifiedOrderItems ==
    IF "int_unified_order_items" \in views THEN int_unified_order_items(raw) ELSE {}

\* C22: every row of the unified order items references an existing unified
\* order: a unified order with the same order_id and the same platform.
C22_ItemsReferenceUnifiedOrders ==
    \A i \in UnifiedOrderItems :
        \E o \in UnifiedOrders : o.order_id = i.order_id /\ o.platform = i.platform

\* the platforms whose raw order or item table lacks a column its staging
\* view selects
PlatformOfView(name) ==
    CASE name \in {"stg_shopify__orders", "stg_shopify__order_items"} -> "shopify"
      [] name \in {"stg_amazon__orders", "stg_amazon__order_items"} -> "amazon"
      [] name \in {"stg_lazada__orders", "stg_lazada__order_items"} -> "lazada"
      [] name \in {"stg_shopee__orders", "stg_shopee__order_items"} -> "shopee"

DegradedPlatforms ==
    {PlatformOfView(name) : name \in {v \in StagingViews : ~columns_exist(v, raw)}}

\* the platforms with landed orders
LandedPlatforms ==
    {p \in {"shopify", "amazon", "lazada", "shopee"} :
        raw[p \o "_orders"] # {}}

\* C23: when one platform's raw relation lacks a column its adapter expects,
\* the rebuild still succeeds: that platform contributes no row to the unified
\* relations and rollups, and the other platforms are unified and aggregated
\* normally.
C23_DegradedPlatformIsLeftOut ==
    (DegradedPlatforms # {} /\ pc = 0 /\ ending # "none")
        => /\ response = success_response
           /\ {o.platform : o \in UnifiedOrders} = LandedPlatforms \ DegradedPlatforms
           /\ marts[PO].exists
           /\ {x.platform : x \in marts[PO].rows} = LandedPlatforms \ DegradedPlatforms

\* the facade call in progress has made all its reads (its result is what it
\* read)
Answered(op) == rd.op = op /\ rd.step = Len(ReadsOf(op)) + 1

\* C24: with start_date and end_date both omitted, get_daily_snapshots(limit)
\* returns at most limit rows, sorted by order_date descending, all with
\* order_date within the last limit calendar days ending today
\* (today - limit + 1 through today).
C24_DefaultWindowIsLastLimitDays ==
    (/\ Answered("get_daily_snapshots")
     /\ IsNull(rd.args.start_date) /\ IsNull(rd.args.end_date))
        => LET q == rd.got[1]
               n == rd.args.limit
           IN  /\ Len(q) <= n
               /\ \A i \in 1..(Len(q) - 1) : q[i].order_date > q[i + 1].order_date
               /\ \A i \in 1..Len(q) :
                      /\ today - n + 1 <= q[i].order_date
                      /\ q[i].order_date <= today

\* the facade call in progress carries an invalid filter: a date range whose
\* start_date is later than its end_date, or a tier that is no tier
PerformanceTiers == {"Top 10", "Top Performer", "Average", "Underperformer"}

InvalidFilter ==
    \/ /\ rd.op \in {"get_daily_snapshots", "get_revenue_by_platform"}
       /\ ~IsNull(rd.args.start_date) /\ ~IsNull(rd.args.end_date)
       /\ rd.args.start_date[1] > rd.args.end_date[1]
    \/ /\ rd.op = "get_product_performance"
       /\ rd.args.tier # ""
       /\ rd.args.tier \notin PerformanceTiers

\* C25: a facade call with an invalid filter (start_date later than end_date,
\* or an unknown tier) is rejected before any rollup is read: it reads no
\* rollup and is answered with no result set.
C25_InvalidFilterReadsNoRollup ==
    InvalidFilter => (rd.held = {} /\ rd.got = <<>>)

\* the platform_overview rows a get_dashboard_summary call read, and the sum
\* of a column over them
SummaryPlatforms == {rd.got[1][i] : i \in 1..Len(rd.got[1])}
SumOver(column) == RSum([x \in SummaryPlatforms |-> x[column]], SummaryPlatforms)
CountOver(column) == ISum([x \in SummaryPlatforms |-> x[column]], SummaryPlatforms)

\* C26 (as claimed): get_dashboard_summary returns total_revenue_usd and
\* total_orders equal to the sums over the platform_overview rows, the two
\* growths exactly (this - last) / last x 100 of the summed monthly values
\* and 0 when the summed last-month value is 0, and recent_days equal to
\* get_daily_snapshots(limit=7).
C26_SummaryIsExact ==
    Answered("get_dashboard_summary") =>
        /\ rd.result.total_revenue_usd = SumOver("total_revenue_usd")
        /\ rd.result.total_orders = CountOver("total_orders")
        /\ rd.result.revenue_growth_pct =
               IF SumOver("revenue_last_month_usd") = RZero THEN RZero
               ELSE ExactGrowth(SumOver("revenue_this_month_usd"),
                                SumOver("revenue_last_month_usd"))
        /\ rd.result.orders_growth_pct =
               IF CountOver("orders_last_month") = 0 THEN RZero
               ELSE ExactGrowth(RInt(CountOver("orders_this_month")),
                                RInt(CountOver("orders_last_month")))
        /\ rd.result.recent_days =
               get_daily_snapshots(marts[DS].rows, Null, Null, 7, today)

\* C26 (as the code has it): total_orders is the sum over the
\* platform_overview rows and total_revenue_usd that sum rounded to two
\* decimals; each growth is (this - last) / last x 100 of the summed monthly
\* values rounded to two decimals, and exactly 0 when the summed last-month
\* value is 0; recent_days is get_daily_snapshots(limit=7); all of it also
\* with no platform row.
C26_SummaryIsRounded ==
    Answered("get_dashboard_summary") =>
        /\ IsRoundedTo2(rd.result.total_revenue_usd, SumOver("total_revenue_usd"))
        /\ rd.result.total_orders = CountOver("total_orders")
        /\ IF SumOver("revenue_last_month_usd") = RZero
           THEN rd.result.revenue_growth_pct = RZero
           ELSE IsRoundedTo2(rd.result.revenue_growth_pct,
                             ExactGrowth(SumOver("revenue_this_month_usd"),
                                         SumOver("revenue_last_month_usd")))
        /\ IF CountOver("orders_last_month") = 0
           THEN rd.result.orders_growth_pct = RZero
           ELSE IsRoundedTo2(rd.result.orders_growth_pct,
                             ExactGrowth(RInt(CountOver("orders_this_month")),
                                         RInt(CountOver("orders_last_month"))))
        /\ rd.result.recent_days =
               get_daily_snapshots(marts[DS].rows, Null, Null, 7, today)

\* a summary over two platform rows whose revenue sum 250.018 is returned
\* as 250.02 and whose revenue growth 49.973.. as 49.97
C26_Witness ==
    /\ Answered("get_dashboard_summary")
    /\ Cardinality(SummaryPlatforms) = 2
    /\ SumOver("total_revenue_usd") = Rat(250018, 1000)
    /\ rd.result.total_revenue_usd = Rat(25002, 100)
    /\ rd.result.total_orders = 3
    /\ rd.result.revenue_growth_pct = Rat(4997, 100)

\* C27: for a fixed rollup generation, fixed arguments and a fixed current
\* date, each read of a facade call has one possible result: the same rows in
\* the same order every time, also when rows tie on the sort key.
C27_AnswersAreDetermined ==
    rd.op # "none" =>
        \A k \in 1..Len(ReadsOf(rd.op)) :
            LET t == ReadsOf(rd.op)[k]
            IN  marts[t].exists =>
                    Cardinality(QueryResults(rd.args, t, marts[t].rows, today)) = 1

\* C28: a get_dashboard_summary call binds to one rollup generation: once
\* both reads are made, its platforms list and its recent_days list are the
\* platform-overview rows and the daily-snapshot rows of one and the same
\* committed generation, also when a rebuild runs and commits between or
\* around the two reads.
C28_SummaryReadsOneGeneration ==
    Answered("get_dashboard_summary") =>
        /\ rd.got[1] \in get_platform_overview(marts[PO].rows)
        /\ rd.got[2] = get_daily_snapshots(marts[DS].rows, Null, Null, 7, today)

\* both reads of a summary are made, each returned rows, the second one
\* while a later rebuild over newly landed orders was running; that rebuild
\* has committed its views and now waits to drop the platform overview
C28_Witness ==
    /\ Answered("get_dashboard_summary")
    /\ rd.got[1] # <<>> /\ rd.got[2] # <<>>
    /\ obs.table = DS
    /\ AtStmt("drop_table") /\ Program[pc].name = PO
    /\ rebuilds = 2
    /\ kpi_platform_overview(raw, today) # marts[PO].rows

\* C29: a product is 'Top Performer' only if its platform has at least 51
\* product rows in kpi_product_performance; on a platform with 50 or fewer
\* products every product beyond revenue rank 10 is 'Average' or
\* 'Underperformer'.
C29_TopPerformerNeeds51Products ==
    marts[PP].exists =>
        \A x \in marts[PP].rows :
            /\ x.performance_tier = "Top Performer"
                   => Cardinality(ProductsOf(x.platform)) >= 51
            /\ (Cardinality(ProductsOf(x.platform)) <= 50 /\ x.revenue_rank > 10)
                   => x.performance_tier \in {"Average", "Underperformer"}

\* a platform of 50 products whose rank 11 is 'Average'
C29_Witness ==
    /\ marts[PP].exists
    /\ \E x \in marts[PP].rows :
          /\ Cardinality(ProductsOf(x.platform)) = 50
          /\ x.revenue_rank = 11
          /\ x.performance_tier = "Average"

\* every platform has its one entry, and in every entry is_connected holds
\* iff status is 'connected' iff connection_id is set
RegistryConsistent ==
    /\ DOMAIN STORE_CONNECTIONS = Platform
    /\ \A p \in Platform :
          LET e == STORE_CONNECTIONS[p]
          IN  /\ e.platform = p
              /\ e.is_connected = TRUE <=> e.status = "connected"
              /\ e.status = "connected" <=> ~IsNull(e.connection_id)

\* C30: after any sequence of connect_store, disconnect_store and
\* trigger_sync calls each of the four platforms has exactly one registry
\* entry, with is_connected true iff status 'connected' iff connection_id
\* non-null; and trigger_sync never changes an entry.
C30_RegistryStaysConsistent ==
    /\ []RegistryConsistent
    /\ [][trigger_sync => STORE_CONNECTIONS' = STORE_CONNECTIONS]_vars

\* a connected, a disconnected and a never connected platform, after a sync
\* was triggered on the connected one
C30_Witness ==
    /\ STORE_CONNECTIONS["shopify"].status = "connected"
    /\ STORE_CONNECTIONS["amazon"].status = "disconnected"
    /\ STORE_CONNECTIONS["lazada"].status = "not_connected"
    /\ store_response.status_code = 200
    /\ store_response.job_id = "sync-shopify-001"
=============================================================================
